---- MODULE Spec2Model ----
(***************************************************************************)
(* Model of the segmented commit log of prolog (internal/log): Store,      *)
(* index, segment and Log, over an explicit file system (inodes and a      *)
(* directory), with the buffered writer of the store and the memory map    *)
(* of the index.                                                           *)
(***************************************************************************)
EXTENDS Integers, Sequences, FiniteSets, TLC

(***************************************************************************)
(* Bounds of the model.                                                    *)
(***************************************************************************)
\* number of Log.Append calls made by the clients in one behaviour
MaxAppends == 3
\* number of times the Log is re-opened with NewLog after a Close
MaxOpens == 1
\* number of bytes io.ReadAll asks for in one origiinReader.Read call
ChunkSize == 5
\* number of concurrent callers of the Log
NumProcs == 2

(***************************************************************************)
(* Program constants.                                                      *)
(***************************************************************************)
lenWidth == 8
offWidth == 4
posWidth == 8
endWidth == offWidth + posWidth
DefaultMaxBytes == 1024
BufSize == 4096

\* error values (Nil is the nil error) and the nil *api.Record
Nil == [kind |-> "nil"]
EOF == [kind |-> "io.EOF"]
ErrClosed == [kind |-> "os.ErrClosed"]
ErrNotExist == [kind |-> "os.ErrNotExist"]
ErrNoSpace == [kind |-> "no space left on device"]
ErrUnmarshal == [kind |-> "proto: cannot parse invalid wire-format data"]
NoRecord == [nil |-> TRUE]
ErrorOffsetOutOfRange(off) == [kind |-> "ErrorOffsetOutOfRange", Offset |-> off]

\* payloads the clients append, and the offset field they put in the record
Values == {<<>>, <<7>>}
ClientOffsets == {0, 9}
\* the Config values the Log is constructed with (0 means "not set")
Config(maxStore, maxIndex, initial) ==
  [MaxStoreBytes |-> maxStore, MaxIndexBytes |-> maxIndex, InitialOffset |-> initial]
\* the defaults; a store cap of two records; an index cap of one entry; an
\* index cap of two entries and a half
Configs ==
  {Config(0, 0, 0), Config(16, 0, 1), Config(0, endWidth, 0), Config(0, 30, 1)}
InitialOffsets == {c.InitialOffset : c \in Configs}

Min(a, b) == IF a < b THEN a ELSE b

\* F applied to the value of x, computed once: names the result of a call for
\* the code after it
Bind(x, F(_)) == CHOOSE y \in {F(v) : v \in {x}} : TRUE

(***************************************************************************)
(* Encodings: binary.BigEndian for the store's length prefix, and the      *)
(* protobuf wire format of api.Record {bytes value = 1; uint64 offset = 2}.*)
(***************************************************************************)
Pow256(k) == IF k = 0 THEN 1 ELSE IF k = 1 THEN 256 ELSE IF k = 2 THEN 65536 ELSE 16777216

\* enc.PutUint64: 8 bytes, most significant first (values below 2^31)
PutUint64(n) ==
  [i \in 1..lenWidth |-> IF lenWidth - i > 3 THEN 0 ELSE (n \div Pow256(lenWidth - i)) % 256]

\* enc.Uint64 of 8 bytes; a value that does not fit the model's integers is Huge
Huge == 1000000
Uint64(b) ==
  IF \E i \in 1..4 : b[i] # 0
    THEN Huge
    ELSE b[5] * Pow256(3) + b[6] * Pow256(2) + b[7] * Pow256(1) + b[8]

RECURSIVE Varint(_)
Varint(n) == IF n < 128 THEN <<n>> ELSE <<128 + (n % 128)>> \o Varint(n \div 128)

\* [value, rest, ok] of the varint at the head of b
RECURSIVE ReadVarint(_)
ReadVarint(b) ==
  IF b = <<>> THEN [value |-> 0, rest |-> <<>>, ok |-> FALSE]
  ELSE IF b[1] < 128 THEN [value |-> b[1], rest |-> Tail(b), ok |-> TRUE]
  ELSE LET r == ReadVarint(Tail(b))
       IN [value |-> (b[1] - 128) + 128 * r.value, rest |-> r.rest, ok |-> r.ok]

TagValue == 10
TagOffset == 16

\* proto.Marshal(record): proto3 omits a field that holds its zero value
Marshal(record) ==
  (IF record.Value = <<>> THEN <<>>
     ELSE <<TagValue>> \o Varint(Len(record.Value)) \o record.Value)
  \o (IF record.Offset = 0 THEN <<>> ELSE <<TagOffset>> \o Varint(record.Offset))

\* proto.Unmarshal(p, &api.Record{}): [record, err]
RECURSIVE UnmarshalInto(_, _)
UnmarshalInto(p, rec) ==
  IF p = <<>> THEN [record |-> rec, err |-> Nil]
  ELSE IF p[1] = TagValue THEN
    LET l == ReadVarint(Tail(p))
    IN IF ~l.ok \/ Len(l.rest) < l.value
         THEN [record |-> rec, err |-> ErrUnmarshal]
         ELSE UnmarshalInto(SubSeq(l.rest, l.value + 1, Len(l.rest)),
                            [rec EXCEPT !.Value = SubSeq(l.rest, 1, l.value)])
  ELSE IF p[1] = TagOffset THEN
    LET o == ReadVarint(Tail(p))
    IN IF ~o.ok THEN [record |-> rec, err |-> ErrUnmarshal]
       ELSE UnmarshalInto(o.rest, [rec EXCEPT !.Offset = o.value])
  ELSE [record |-> rec, err |-> ErrUnmarshal]

Unmarshal(p) == UnmarshalInto(p, [Value |-> <<>>, Offset |-> 0])

(***************************************************************************)
(* The file system.  files is the sequence of inodes ever created: an      *)
(* inode is [data, entries, len]; a store file uses data (its bytes), an   *)
(* index file uses entries (the 12-byte entries written so far) and len    *)
(* (its length in bytes; bytes never written read as zero).  dir is the    *)
(* data directory: the set of [name, ext, fid] entries.  An unlinked inode   *)
(* stays in files as long as a handle or a mapping may refer to it.        *)
(***************************************************************************)
EmptyFile == [data |-> <<>>, entries |-> <<>>, len |-> 0, full |-> FALSE]
ZeroEntry == [off |-> 0, pos |-> 0]

\* fmt.Sprintf("%d", n) and strconv.ParseUint(s, 10, 0) (0 when s is no number)
RECURSIVE FormatUint(_)
FormatUint(n) == IF n < 10 THEN <<n>> ELSE FormatUint(n \div 10) \o <<n % 10>>

RECURSIVE ParseDigits(_, _)
ParseDigits(str, acc) ==
  IF str = <<>> THEN acc ELSE ParseDigits(Tail(str), 10 * acc + Head(str))

ParseUint(str) == IF str = <<>> THEN 0 ELSE ParseDigits(str, 0)

Lookup(dir, base, ext) == {e \in dir : e.name = FormatUint(base) /\ e.ext = ext}

\* os.OpenFile(name, O_RDWR|O_CREATE...): [files, dir, fid]
OpenFile(files, dir, base, ext) ==
  IF Lookup(dir, base, ext) # {}
    THEN [files |-> files, dir |-> dir, fid |-> (CHOOSE e \in Lookup(dir, base, ext) : TRUE).fid]
    ELSE [files |-> Append(files, EmptyFile),
          dir |-> dir \cup {[name |-> FormatUint(base), ext |-> ext, fid |-> Len(files) + 1]},
          fid |-> Len(files) + 1]

\* File.ReadAt(b, off) with len(b) = n on the handle of store s: [bytes, err]
FileReadAt(files, s, n, off) ==
  LET data == files[s.fid].data
  IN IF s.closed THEN [bytes |-> <<>>, err |-> ErrClosed]
     ELSE IF n = 0 THEN [bytes |-> <<>>, err |-> Nil]
     ELSE IF off + n <= Len(data)
       THEN [bytes |-> SubSeq(data, off + 1, off + n), err |-> Nil]
       ELSE [bytes |-> SubSeq(data, off + 1, Len(data)), err |-> EOF]

(***************************************************************************)
(* Store: [fid, size, buf, werr, closed].  buf is what bufio.Writer holds  *)
(* and has not written to the file, werr its sticky error, closed the      *)
(* state of the *os.File.                                                  *)
(***************************************************************************)
\* newStore that takes the file for empty
newStore_SizeZero(files, fid) ==
  [fid |-> fid, size |-> 0, buf |-> <<>>, werr |-> Nil, closed |-> FALSE]

\* newStore(file)
newStore(files, fid) ==
  [fid |-> fid, size |-> Len(files[fid].data), buf |-> <<>>, werr |-> Nil, closed |-> FALSE]

\* s.buf.Flush(): [files, store, err]
BufFlush(files, s) ==
  IF s.werr # Nil THEN [files |-> files, store |-> s, err |-> s.werr]
  ELSE IF s.buf = <<>> THEN [files |-> files, store |-> s, err |-> Nil]
  ELSE IF s.closed
    THEN [files |-> files, store |-> [s EXCEPT !.werr = ErrClosed], err |-> ErrClosed]
  ELSE IF files[s.fid].full
    THEN [files |-> files, store |-> [s EXCEPT !.werr = ErrNoSpace], err |-> ErrNoSpace]
    ELSE [files |-> [files EXCEPT ![s.fid].data = @ \o s.buf],
          store |-> [s EXCEPT !.buf = <<>>], err |-> Nil]

\* s.buf.Write(p): the bytes stay in the buffer while they fit, and go
\* through to the file (opened O_APPEND) when the buffer overflows
BufWrite(files, s, p) ==
  IF s.werr # Nil THEN [files |-> files, store |-> s, err |-> s.werr]
  ELSE IF Len(s.buf) + Len(p) <= BufSize
    THEN [files |-> files, store |-> [s EXCEPT !.buf = @ \o p], err |-> Nil]
    ELSE Bind(BufFlush(files, s), LAMBDA f :
           IF f.err # Nil THEN f
           ELSE [files |-> f.files, store |-> [f.store EXCEPT !.buf = p], err |-> Nil])

\* Store.Append(p): [files, store, n, pos, err]
StoreAppend(files, s, p) ==
  Bind(BufWrite(files, s, PutUint64(Len(p))), LAMBDA w1 :
    IF w1.err # Nil
      THEN [files |-> w1.files, store |-> w1.store, n |-> 0, pos |-> 0, err |-> w1.err]
      ELSE Bind(BufWrite(w1.files, w1.store, p), LAMBDA w2 :
        IF w2.err # Nil
          THEN [files |-> w2.files, store |-> w2.store, n |-> 0, pos |-> 0,
                err |-> w2.err]
          ELSE [files |-> w2.files,
                store |-> [w2.store EXCEPT !.size = @ + Len(p) + lenWidth],
                n |-> Len(p) + lenWidth, pos |-> s.size, err |-> Nil]))

\* Store.Read that reads the file without flushing the write buffer
StoreRead_NoFlush(files, s, pos) ==
  LET size == FileReadAt(files, s, lenWidth, pos)
      b == FileReadAt(files, s, Uint64(size.bytes), pos + lenWidth)
  IN IF size.err # Nil
       THEN [files |-> files, store |-> s, bytes |-> <<>>, err |-> size.err]
     ELSE IF b.err # Nil
       THEN [files |-> files, store |-> s, bytes |-> <<>>, err |-> b.err]
     ELSE [files |-> files, store |-> s, bytes |-> b.bytes, err |-> Nil]

\* Store.Read(pos): [files, store, bytes, err]
StoreRead(files, s, pos) ==
  Bind(BufFlush(files, s), LAMBDA f :
    IF f.err # Nil
      THEN [files |-> f.files, store |-> f.store, bytes |-> <<>>, err |-> f.err]
    ELSE Bind(FileReadAt(f.files, f.store, lenWidth, pos), LAMBDA size :
      IF size.err # Nil
        THEN [files |-> f.files, store |-> f.store, bytes |-> <<>>,
              err |-> size.err]
      ELSE Bind(FileReadAt(f.files, f.store, Uint64(size.bytes), pos + lenWidth),
                LAMBDA b :
        IF b.err # Nil
          THEN [files |-> f.files, store |-> f.store, bytes |-> <<>>,
                err |-> b.err]
          ELSE [files |-> f.files, store |-> f.store, bytes |-> b.bytes,
                err |-> Nil])))

\* Store.ReadAt(p, off) with len(p) = n: [files, store, bytes, err]
StoreReadAt(files, s, n, off) ==
  LET f == BufFlush(files, s)
      r == FileReadAt(f.files, f.store, n, off)
  IN IF f.err # Nil
       THEN [files |-> f.files, store |-> f.store, bytes |-> <<>>, err |-> f.err]
       ELSE [files |-> f.files, store |-> f.store, bytes |-> r.bytes, err |-> r.err]

\* Store.Close(): [files, store, err]
StoreClose(files, s) ==
  LET f == BufFlush(files, s)
  IN IF f.err # Nil THEN f
     ELSE IF f.store.closed THEN [files |-> f.files, store |-> f.store, err |-> ErrClosed]
     ELSE [files |-> f.files, store |-> [f.store EXCEPT !.closed = TRUE], err |-> Nil]

(***************************************************************************)
(* index: [fid, size, mmapLen, closed].  The mapping is MAP_SHARED, so a   *)
(* write through it is a write of the inode.                               *)
(***************************************************************************)
\* os.Truncate / File.Truncate of an index file to n bytes
TruncateFile(f, n) ==
  [f EXCEPT !.len = n,
            !.entries = SubSeq(@, 1, Min(Len(@), n \div endWidth))]

\* newIndex(file, c): [files, index]
newIndex(files, fid, c) ==
  [files |-> [files EXCEPT ![fid] = TruncateFile(@, c.MaxIndexBytes)],
   index |-> [fid |-> fid, size |-> files[fid].len,
              mmapLen |-> c.MaxIndexBytes, closed |-> FALSE]]

\* the entry the mapping holds at byte position pos
EntryAt(files, i, pos) ==
  LET k == (pos \div endWidth) + 1
  IN IF k <= Len(files[i.fid].entries) THEN files[i.fid].entries[k] ELSE ZeroEntry

\* index.Read(in): [out, pos, err].  out = uint32(in) keeps the low 32 bits
\* of in: a negative in other than -1 becomes an entry number of 2^31 or
\* more, which is past every mapping
indexRead(files, i, in) ==
  LET out == IF in = -1 THEN (i.size \div endWidth) - 1 ELSE in
      pos == out * endWidth
  IN IF i.size = 0 THEN [out |-> 0, pos |-> 0, err |-> EOF]
     ELSE IF out < 0 THEN [out |-> 0, pos |-> 0, err |-> EOF]
     ELSE IF i.size < pos + endWidth THEN [out |-> 0, pos |-> 0, err |-> EOF]
     ELSE [out |-> EntryAt(files, i, pos).off, pos |-> EntryAt(files, i, pos).pos,
           err |-> Nil]

\* index.Read(in) for in = hi * 2^32 + lo with 0 <= lo < 2^31, or for in = lo
\* when hi is 0: in is -1 only as hi = 0 and lo = -1, and uint32(in) drops hi
indexReadInt64(files, i, hi, lo) == indexRead(files, i, lo)

\* the entries of a file after the entry e is stored at entry number k (from 1)
PutEntry(entries, k, e) ==
  [j \in 1..(IF k > Len(entries) THEN k ELSE Len(entries)) |->
     IF j = k THEN e ELSE IF j <= Len(entries) THEN entries[j] ELSE ZeroEntry]

\* index.Write(off, pos): [files, index, err]
indexWrite(files, i, off, pos) ==
  IF i.mmapLen < i.size + endWidth
    THEN [files |-> files, index |-> i, err |-> EOF]
    ELSE [files |-> [files EXCEPT ![i.fid].entries =
                       PutEntry(@, (i.size \div endWidth) + 1, [off |-> off, pos |-> pos])],
          index |-> [i EXCEPT !.size = @ + endWidth],
          err |-> Nil]

\* index.Close that leaves the file at the length of the mapping
indexClose_NoTruncate(files, i) ==
  IF i.closed THEN [files |-> files, index |-> i, err |-> ErrClosed]
  ELSE [files |-> files, index |-> [i EXCEPT !.closed = TRUE], err |-> Nil]

\* index.Close(): [files, index, err]
indexClose(files, i) ==
  IF i.closed THEN [files |-> files, index |-> i, err |-> ErrClosed]
  ELSE [files |-> [files EXCEPT ![i.fid] = TruncateFile(@, i.size)],
        index |-> [i EXCEPT !.closed = TRUE], err |-> Nil]

(***************************************************************************)
(* segment: [store, index, baseOffset, nextOffset, config].                *)
(***************************************************************************)
\* newSegment(dir, baseOffset, c): [files, dir, segment]
newSegment(files, dir, baseOffset, c) ==
  LET sf == OpenFile(files, dir, baseOffset, ".store")
      st == newStore(sf.files, sf.fid)
      xf == OpenFile(sf.files, sf.dir, baseOffset, ".index")
      ix == newIndex(xf.files, xf.fid, c)
      last == indexRead(ix.files, ix.index, -1)
  IN [files |-> ix.files, dir |-> xf.dir,
      segment |-> [store |-> st, index |-> ix.index, baseOffset |-> baseOffset,
                   nextOffset |-> IF last.err # Nil THEN baseOffset
                                  ELSE baseOffset + last.out + 1,
                   config |-> c]]

\* segment.Append that marshals the record as the caller passed it
segmentAppendStore_KeepOffset(files, s, record) ==
  Bind(StoreAppend(files, s.store, Marshal(record)), LAMBDA a :
    [files |-> a.files, segment |-> [s EXCEPT !.store = a.store],
     cur |-> s.nextOffset, pos |-> a.pos, err |-> a.err])

\* segment.Append up to the return of store.Append: cur := s.nextOffset,
\* record.Offset = cur, proto.Marshal, s.store.Append(p):
\* [files, segment, cur, pos, err]
segmentAppendStore(files, s, record) ==
  Bind(StoreAppend(files, s.store, Marshal([record EXCEPT !.Offset = s.nextOffset])),
       LAMBDA a :
    [files |-> a.files, segment |-> [s EXCEPT !.store = a.store],
     cur |-> s.nextOffset, pos |-> a.pos, err |-> a.err])

\* segment.Append from s.index.Write on: the entry is numbered by the
\* nextOffset the segment has now, the offset returned is cur:
\* [files, segment, offset, err]
segmentAppendIndex(files, s, cur, pos) ==
  Bind(indexWrite(files, s.index, s.nextOffset - s.baseOffset, pos), LAMBDA w :
    IF w.err # Nil
      THEN [files |-> w.files, segment |-> s, offset |-> 0, err |-> w.err]
      ELSE [files |-> w.files,
            segment |-> [s EXCEPT !.index = w.index, !.nextOffset = @ + 1],
            offset |-> cur, err |-> Nil])

\* segment.Append(record): [files, segment, offset, err]
segmentAppend(files, s, record) ==
  Bind(segmentAppendStore(files, s, record), LAMBDA a :
    IF a.err # Nil
      THEN [files |-> a.files, segment |-> a.segment, offset |-> 0, err |-> a.err]
      ELSE segmentAppendIndex(a.files, a.segment, a.cur, a.pos))

\* segment.Read from s.store.Read(pos) on: [files, segment, record, err]
segmentReadStore(files, s, pos) ==
  Bind(StoreRead(files, s.store, pos), LAMBDA r :
    IF r.err # Nil
      THEN [files |-> r.files, segment |-> [s EXCEPT !.store = r.store],
            record |-> NoRecord, err |-> r.err]
      ELSE Bind(Unmarshal(r.bytes), LAMBDA u :
             [files |-> r.files, segment |-> [s EXCEPT !.store = r.store],
              record |-> u.record, err |-> u.err]))

\* segment.Read that looks the absolute offset up in the index
segmentRead_Absolute(files, s, offset) ==
  Bind(indexRead(files, s.index, offset), LAMBDA e :
    IF e.err # Nil
      THEN [files |-> files, segment |-> s, record |-> NoRecord, err |-> e.err]
      ELSE segmentReadStore(files, s, e.pos))

\* segment.Read(offset): [files, segment, record, err]
segmentRead(files, s, offset) ==
  Bind(indexRead(files, s.index, offset - s.baseOffset), LAMBDA e :
    IF e.err # Nil
      THEN [files |-> files, segment |-> s, record |-> NoRecord, err |-> e.err]
      ELSE segmentReadStore(files, s, e.pos))

\* segment.IsMaxed that looks at the store alone
IsMaxed_StoreOnly(s) == s.store.size >= s.config.MaxStoreBytes

\* segment.IsMaxed()
IsMaxed(s) ==
  \/ s.store.size >= s.config.MaxStoreBytes
  \/ s.index.size >= s.config.MaxIndexBytes

\* os.Remove(name): [dir, err]
osRemove(dir, base, ext) ==
  IF Lookup(dir, base, ext) = {} THEN [dir |-> dir, err |-> ErrNotExist]
  ELSE [dir |-> dir \ Lookup(dir, base, ext), err |-> Nil]

\* segment.Remove(): [files, dir, segment, err]
segmentRemove(files, dir, s) ==
  LET c == StoreClose(files, s.store)
      r1 == osRemove(dir, s.baseOffset, ".index")
      r2 == osRemove(r1.dir, s.baseOffset, ".store")
      s1 == [s EXCEPT !.store = c.store]
  IN IF c.err # Nil THEN [files |-> c.files, dir |-> dir, segment |-> s1, err |-> c.err]
     ELSE IF r1.err # Nil
       THEN [files |-> c.files, dir |-> r1.dir, segment |-> s1, err |-> r1.err]
     ELSE [files |-> c.files, dir |-> r2.dir, segment |-> s1, err |-> r2.err]

\* segment.Close(): [files, segment, err]
segmentClose(files, s) ==
  LET i == indexClose(files, s.index)
      c == StoreClose(i.files, s.store)
  IN IF i.err # Nil
       THEN [files |-> i.files, segment |-> [s EXCEPT !.index = i.index], err |-> i.err]
       ELSE [files |-> c.files,
             segment |-> [s EXCEPT !.index = i.index, !.store = c.store],
             err |-> c.err]

(***************************************************************************)
(* Log.  The world W is [files, dir, segs, l]: segs is the heap of segment *)
(* objects (a *segment is a position in segs, 0 is the nil pointer) and l  *)
(* is the Log, [Config, activeSegment, segments].                          *)
(***************************************************************************)
\* Log.newSegment(off)
LogNewSegment(W, off) ==
  LET n == newSegment(W.files, W.dir, off, W.l.Config)
      sid == Len(W.segs) + 1
  IN [files |-> n.files, dir |-> n.dir, segs |-> Append(W.segs, n.segment),
      l |-> [W.l EXCEPT !.segments = Append(@, sid), !.activeSegment = sid]]

\* the base offsets parsed from the names of the directory, sorted (sort.Slice)
RECURSIVE SortedBases(_)
SortedBases(entries) ==
  IF entries = {} THEN <<>>
  ELSE LET m == CHOOSE e \in entries :
                  \A f \in entries : ParseUint(e.name) <= ParseUint(f.name)
       IN <<ParseUint(m.name)>> \o SortedBases(entries \ {m})

\* the loop of Log.setup without the second i++: a segment per file
RECURSIVE setupLoop_EveryFile(_, _, _)
setupLoop_EveryFile(W, baseOffsets, i) ==
  IF i > Len(baseOffsets) THEN W
  ELSE setupLoop_EveryFile(LogNewSegment(W, baseOffsets[i]), baseOffsets, i + 1)

\* the loop of Log.setup: newSegment(baseOffsets[i]) and i++ twice per round
RECURSIVE setupLoop(_, _, _)
setupLoop(W, baseOffsets, i) ==
  IF i > Len(baseOffsets) THEN W
  ELSE setupLoop(LogNewSegment(W, baseOffsets[i]), baseOffsets, i + 2)

\* Log.setup()
setup(W) ==
  LET W1 == setupLoop(W, SortedBases(W.dir), 1)
  IN IF W1.l.segments = <<>>
       THEN LogNewSegment(W1, W1.l.Config.InitialOffset)
       ELSE W1

\* NewLog(dir, c) on the directory dir of the file system
NewLog(files, dir, c) ==
  LET c1 == [c EXCEPT !.MaxStoreBytes = IF @ = 0 THEN DefaultMaxBytes ELSE @,
                      !.MaxIndexBytes = IF @ = 0 THEN DefaultMaxBytes ELSE @]
  IN setup([files |-> files, dir |-> dir, segs |-> <<>>,
            l |-> [Config |-> c1, activeSegment |-> 0, segments |-> <<>>]])

\* Log.Append that rolls over to a segment based at off instead of off + 1
LogAppend_SameOffset(W, record) ==
  Bind(segmentAppend(W.files, W.segs[W.l.activeSegment], record), LAMBDA a :
    Bind([W EXCEPT !.files = a.files, !.segs[W.l.activeSegment] = a.segment],
         LAMBDA W1 :
      IF a.err # Nil THEN [W |-> W1, off |-> 0, err |-> a.err]
      ELSE IF IsMaxed(a.segment)
        THEN [W |-> LogNewSegment(W1, a.offset), off |-> a.offset, err |-> Nil]
        ELSE [W |-> W1, off |-> a.offset, err |-> Nil]))

\* Log.Append after a successful activeSegment.Append: a maxed segment is
\* followed by a new one at off + 1
LogRoll(W, off) ==
  IF IsMaxed(W.segs[W.l.activeSegment]) THEN LogNewSegment(W, off + 1) ELSE W

\* Log.Append(record): [W, off, err]
LogAppend(W, record) ==
  Bind(segmentAppend(W.files, W.segs[W.l.activeSegment], record), LAMBDA a :
    Bind([W EXCEPT !.files = a.files, !.segs[W.l.activeSegment] = a.segment],
         LAMBDA W1 :
      IF a.err # Nil THEN [W |-> W1, off |-> 0, err |-> a.err]
      ELSE [W |-> LogRoll(W1, a.offset), off |-> a.offset, err |-> Nil]))

\* the segment Log.Read picks for off: the first one that holds it, 0 if none
FindSegment(W, off) ==
  LET hits == {i \in 1..Len(W.l.segments) :
                 /\ W.segs[W.l.segments[i]].baseOffset <= off
                 /\ off < W.segs[W.l.segments[i]].nextOffset}
  IN IF hits = {} THEN 0
     ELSE W.l.segments[CHOOSE i \in hits : \A j \in hits : i <= j]

\* Log.Read that takes the last segment for every offset at or past its base
\* and tests nextOffset < off
LogRead_OffByOne(W, off) ==
  LET n == Len(W.l.segments)
      sid == IF n > 0 /\ W.segs[W.l.segments[n]].baseOffset <= off
               THEN W.l.segments[n] ELSE FindSegment(W, off)
      r == segmentRead(W.files, W.segs[sid], off)
  IN IF sid = 0 \/ W.segs[sid].nextOffset < off
       THEN [W |-> W, record |-> NoRecord, err |-> ErrorOffsetOutOfRange(off)]
       ELSE [W |-> [W EXCEPT !.files = r.files, !.segs[sid] = r.segment],
             record |-> r.record, err |-> r.err]

\* Log.Read(off): [W, record, err]
LogRead(W, off) ==
  Bind(FindSegment(W, off), LAMBDA sid :
    IF sid = 0 \/ W.segs[sid].nextOffset <= off
      THEN [W |-> W, record |-> NoRecord, err |-> ErrorOffsetOutOfRange(off)]
      ELSE Bind(segmentRead(W.files, W.segs[sid], off), LAMBDA r :
             [W |-> [W EXCEPT !.files = r.files, !.segs[sid] = r.segment],
              record |-> r.record, err |-> r.err]))

\* Log.Close(): [W, err]
RECURSIVE closeLoop(_, _)
closeLoop(W, i) ==
  IF i > Len(W.l.segments) THEN [W |-> W, err |-> Nil]
  ELSE LET sid == W.l.segments[i]
           c == segmentClose(W.files, W.segs[sid])
           W1 == [W EXCEPT !.files = c.files, !.segs[sid] = c.segment]
       IN IF c.err # Nil THEN [W |-> W1, err |-> c.err] ELSE closeLoop(W1, i + 1)

LogClose(W) == closeLoop(W, 1)

\* Log.Reset(): [W, err]; setup appends to the l.segments that Close left
LogReset(W) ==
  Bind(LogClose(W), LAMBDA c :
    IF c.err # Nil THEN c ELSE [W |-> setup(c.W), err |-> Nil])

\* Log.LowestOffset() and Log.HighestOffset(); indexing an empty slice panics
Panic == "panic: index out of range"
LowestOffset(W) ==
  IF W.l.segments = <<>> THEN Panic ELSE W.segs[W.l.segments[1]].baseOffset

HighestOffset(W) ==
  IF W.l.segments = <<>> THEN Panic
  ELSE LET off == W.segs[W.l.segments[Len(W.l.segments)]].nextOffset
       IN IF off = 0 THEN 0 ELSE off - 1

\* the test Log.Truncate makes on a segment to remove it
ShouldRemove_Strict(s, lowest) == s.nextOffset <= lowest

ShouldRemove(s, lowest) == s.nextOffset <= lowest + 1

\* Log.Truncate(lowest): [W, err]
RECURSIVE truncateLoop(_, _, _, _)
truncateLoop(W, lowest, i, segments) ==
  IF i > Len(W.l.segments) THEN [W |-> [W EXCEPT !.l.segments = segments], err |-> Nil]
  ELSE LET sid == W.l.segments[i]
           r == segmentRemove(W.files, W.dir, W.segs[sid])
           W1 == [W EXCEPT !.files = r.files, !.dir = r.dir, !.segs[sid] = r.segment]
       IN IF ShouldRemove(W.segs[sid], lowest)
            THEN IF r.err # Nil THEN [W |-> W1, err |-> r.err]
                 ELSE truncateLoop(W1, lowest, i + 1, segments)
            ELSE truncateLoop(W, lowest, i + 1, Append(segments, sid))

LogTruncate(W, lowest) == truncateLoop(W, lowest, 1, <<>>)

(***************************************************************************)
(* Log.Reader(): one origiinReader per segment, at position 0, behind an   *)
(* io.MultiReader; io.ReadAll reads it in chunks until the end.            *)
(***************************************************************************)
\* the readers of Log.Reader(): the segments whose stores are read, in order
LogReader(W) == W.l.segments

\* origiinReader.Read until it returns an error: [W, bytes, err]
RECURSIVE readerLoop(_, _, _, _)
readerLoop(W, sid, off, acc) ==
  LET r == StoreReadAt(W.files, W.segs[sid].store, ChunkSize, off)
      W1 == [W EXCEPT !.files = r.files, !.segs[sid].store = r.store]
  IN IF r.err # Nil
       THEN [W |-> W1, bytes |-> acc \o r.bytes, err |-> r.err]
       ELSE readerLoop(W1, sid, off + Len(r.bytes), acc \o r.bytes)

\* io.ReadAll(io.MultiReader(readers...)): [W, bytes, err]
RECURSIVE multiReadAll(_, _, _, _)
multiReadAll(W, readers, i, acc) ==
  IF i > Len(readers) THEN [W |-> W, bytes |-> acc, err |-> Nil]
  ELSE LET r == readerLoop(W, readers[i], 0, <<>>)
       IN IF r.err # EOF THEN [W |-> r.W, bytes |-> acc \o r.bytes, err |-> r.err]
          ELSE multiReadAll(r.W, readers, i + 1, acc \o r.bytes)

ReadAll(W, readers) == multiReadAll(W, readers, 1, <<>>)

\* the stream parsed as [8-byte big-endian length][payload] frames and each
\* payload unmarshalled: [records, err]
RECURSIVE ParseFrames(_, _)
ParseFrames(b, acc) ==
  IF b = <<>> THEN [records |-> acc, err |-> Nil]
  ELSE IF Len(b) < lenWidth THEN [records |-> acc, err |-> EOF]
  ELSE LET n == Uint64(SubSeq(b, 1, lenWidth))
           u == Unmarshal(SubSeq(b, lenWidth + 1, lenWidth + n))
       IN IF Len(b) < lenWidth + n THEN [records |-> acc, err |-> EOF]
          ELSE IF u.err # Nil THEN [records |-> acc, err |-> u.err]
          ELSE ParseFrames(SubSeq(b, lenWidth + n + 1, Len(b)), Append(acc, u.record))

(***************************************************************************)
(* State.  files, dir, segs and l are the program's state; config is the   *)
(* Config the program passes to NewLog.  The other variables record what   *)
(* the clients did and saw:                                                *)
(*   closed     the client has called Close and not yet NewLog             *)
(*   calls      number of Append calls made                                *)
(*   opens      number of NewLog calls made after a Close                  *)
(*   appended   the offsets returned by the successful appends, in order   *)
(*   live       offset -> payload, for the offsets appended to a segment   *)
(*              of the Log that Truncate has not removed since             *)
(*   truncated  Truncate has removed a segment                             *)
(*   res        the last operation completed, with its result              *)
(*   snap       what the Log showed before the last Close or Truncate      *)
(***************************************************************************)
VARIABLES files, dir, segs, l, config,
          closed, calls, opens, appended, live, truncated, res, snap,
          mu, pc, locked, returned,
          srv, peer, repl, membership, agent

vars == <<files, dir, segs, l, config,
          closed, calls, opens, appended, live, truncated, res, snap,
          mu, pc, locked, returned,
          srv, peer, repl, membership, agent>>

\* what is outside the Log: the streams of the gRPC server (srv), the Log of
\* the peer node (peer), the Replicator (repl), the MemberShip (membership)
\* and the Agent that owns them (agent)
network == <<srv, peer, repl, membership, agent>>

\* the callers' side of the Log: l.mu, where each goroutine stands, how many
\* times the writer lock was taken, what the Appends returned
goroutines == <<mu, pc, locked, returned>>

\* the goroutines that call the Log concurrently
Procs == 1..NumProcs
Idle == [at |-> "idle"]

World == [files |-> files, dir |-> dir, segs |-> segs, l |-> l]

SetWorld(W) ==
  /\ files' = W.files
  /\ dir' = W.dir
  /\ segs' = W.segs
  /\ l' = W.l

MaxInitialOffset == CHOOSE m \in InitialOffsets : \A o \in InitialOffsets : o <= m
\* the offsets the clients ask for
Offsets == 0..(MaxInitialOffset + MaxAppends + 1)

Result(op, arg, off, record, err, bytes) ==
  [op |-> op, arg |-> arg, value |-> <<>>, off |-> off, record |-> record,
   err |-> err, bytes |-> bytes, conc |-> FALSE, subject |-> ""]

\* what Read returns at every offset
Contents(W) ==
  [o \in Offsets |-> [record |-> LogRead(W, o).record, err |-> LogRead(W, o).err]]

\* [sid, baseOffset, nextOffset] of the segments of the Log, in order
Ranges(W) ==
  [i \in 1..Len(W.l.segments) |->
     [sid |-> W.l.segments[i],
      baseOffset |-> W.segs[W.l.segments[i]].baseOffset,
      nextOffset |-> W.segs[W.l.segments[i]].nextOffset]]

View(W) ==
  [lowest |-> LowestOffset(W), highest |-> HighestOffset(W),
   ranges |-> Ranges(W), records |-> Contents(W)]

NoMap == [o \in {} |-> <<>>]
NoSnap == [lowest |-> Panic, highest |-> Panic, ranges |-> <<>>, records |-> NoMap]

\* a produce stream: the requests sent and not yet received (inbox), the
\* values of all requests sent (sent), the offsets answered (resp), and the
\* error the handler returned
NoProduceStream == [inbox |-> <<>>, sent |-> <<>>, resp |-> <<>>, err |-> Nil]

\* a consume stream: where the handler stands ("none" before the call,
\* "open" in the loop, "done" after its return), the subject of the caller,
\* the offset of the first request, req.Offset, the records sent, whether
\* the context of the stream is done, and the error returned
NoConsumeStream ==
  [at |-> "none", subject |-> "", start |-> 0, offset |-> 0, out |-> <<>>,
   ctxDone |-> FALSE, err |-> Nil]

NoStreams == [ps |-> NoProduceStream, cs |-> NoConsumeStream]
NoPeer == [files |-> <<>>]
\* the zero value of Replicator after init(): no servers, not closed, r.close
\* open; workers are the goroutines that Join has started, panic says that a
\* closed channel was closed again
NoReplicator ==
  [servers |-> [n \in {} |-> 0], closed |-> FALSE, close |-> "open",
   workers |-> <<>>, panic |-> FALSE]
\* no MemberShip was built: no eventHandler goroutine, nothing on m.events
NoMemberShip ==
  [running |-> FALSE, sent |-> <<>>, received |-> 0, calls |-> <<>>, left |-> FALSE]
\* no Agent was built
NoAgent == [shutdown |-> FALSE, shutdowns |-> "open", shutdownLock |-> 0,
            server |-> "none", steps |-> <<>>, pc |-> <<>>, ncalls |-> <<>>,
            returned |-> <<>>, panic |-> FALSE]

InitLog(C) ==
  /\ config \in C
  /\ LET W == NewLog(<<>>, {}, config)
     IN /\ files = W.files
        /\ dir = W.dir
        /\ segs = W.segs
        /\ l = W.l
  /\ closed = FALSE
  /\ calls = 0
  /\ opens = 0
  /\ appended = <<>>
  /\ live = NoMap
  /\ truncated = FALSE
  /\ res = Result("NewLog", 0, 0, NoRecord, Nil, <<>>)
  /\ snap = NoSnap
  /\ mu = [writer |-> 0, readers |-> {}]
  /\ pc = [p \in Procs |-> Idle]
  /\ locked = 0
  /\ returned = <<>>
  /\ srv = NoStreams
  /\ peer = NoPeer
  /\ repl = NoReplicator

\* a Log without MemberShip and Agent
InitWith(C) ==
  /\ InitLog(C)
  /\ membership = NoMemberShip
  /\ agent = NoAgent

Init == InitWith(Configs)

\* the active segment is one of the Log's segments
ActiveListed(W) == \E i \in 1..Len(W.l.segments) : W.l.segments[i] = W.l.activeSegment

\* log.Append(&api.Record{Value: v, Offset: o})
DoAppend(v, o) ==
  /\ ~closed
  /\ calls < MaxAppends
  /\ LET r == LogAppend(World, [Value |-> v, Offset |-> o])
     IN /\ SetWorld(r.W)
        /\ res' = [Result("Append", o, r.off, NoRecord, r.err, <<>>) EXCEPT !.value = v]
        /\ appended' = IF r.err = Nil
                         THEN Append(appended, r.off)
                         ELSE appended
        /\ live' = IF r.err = Nil /\ ActiveListed(World)
                     THEN [x \in DOMAIN live \cup {r.off} |->
                             IF x = r.off THEN v ELSE live[x]]
                     ELSE live
  /\ calls' = calls + 1
  /\ snap' = NoSnap
  /\ UNCHANGED <<config, closed, opens, truncated>>
  /\ UNCHANGED goroutines
  /\ UNCHANGED network

\* log.Read(off)
DoRead(off) ==
  /\ ~closed
  /\ LET r == LogRead(World, off)
     IN /\ SetWorld(r.W)
        /\ res' = Result("Read", off, off, r.record, r.err, <<>>)
  /\ snap' = NoSnap
  /\ UNCHANGED <<config, closed, calls, opens, appended, live, truncated>>
  /\ UNCHANGED goroutines
  /\ UNCHANGED network

\* the offsets of the segments that Truncate(lowest) removes
RemovedBy(W, lowest) ==
  {o \in Offsets : \E i \in 1..Len(W.l.segments) :
     /\ ShouldRemove(W.segs[W.l.segments[i]], lowest)
     /\ W.segs[W.l.segments[i]].baseOffset <= o
     /\ o < W.segs[W.l.segments[i]].nextOffset}

\* log.Truncate(lowest)
DoTruncate(lowest) ==
  /\ ~closed
  /\ LET r == LogTruncate(World, lowest)
     IN /\ SetWorld(r.W)
        /\ res' = Result("Truncate", lowest, 0, NoRecord, r.err, <<>>)
        /\ truncated' = (truncated \/ r.W.l.segments # l.segments)
        /\ live' = IF r.err = Nil
                     THEN [x \in DOMAIN live \ RemovedBy(World, lowest) |-> live[x]]
                     ELSE live
  /\ snap' = View(World)
  /\ UNCHANGED <<config, closed, calls, opens, appended>>
  /\ UNCHANGED goroutines
  /\ UNCHANGED network

\* log.Close()
DoClose ==
  /\ ~closed
  /\ LET r == LogClose(World)
     IN /\ SetWorld(r.W)
        /\ res' = Result("Close", 0, 0, NoRecord, r.err, <<>>)
  /\ closed' = TRUE
  /\ snap' = View(World)
  /\ UNCHANGED <<config, calls, opens, appended, live, truncated>>
  /\ UNCHANGED goroutines
  /\ UNCHANGED network

\* the file system once the old Log is gone: an inode that has no name in
\* the directory and no open handle is freed
Linked(fs, d) == {fid \in 1..Len(fs) : \E e \in d : e.fid = fid}
Rank(fs, d, fid) == Cardinality({g \in Linked(fs, d) : g <= fid})
Fsck(fs, d) ==
  [files |-> [k \in 1..Cardinality(Linked(fs, d)) |->
                fs[CHOOSE fid \in Linked(fs, d) : Rank(fs, d, fid) = k]],
   dir |-> {[e EXCEPT !.fid = Rank(fs, d, e.fid)] : e \in d}]

\* NewLog(log.Dir, log.Config) after log.Close(): the new Log replaces the old
DoNewLog ==
  /\ closed
  /\ opens < MaxOpens
  /\ SetWorld(NewLog(Fsck(files, dir).files, Fsck(files, dir).dir, config))
  /\ res' = Result("NewLog", 0, 0, NoRecord, Nil, <<>>)
  /\ closed' = FALSE
  /\ opens' = opens + 1
  /\ UNCHANGED <<config, calls, appended, live, truncated, snap>>
  /\ UNCHANGED goroutines
  /\ UNCHANGED network

\* io.ReadAll(log.Reader())
DoReader ==
  /\ ~closed
  /\ LET r == ReadAll(World, LogReader(World))
     IN /\ SetWorld(r.W)
        /\ res' = Result("Reader", 0, 0, NoRecord, r.err, r.bytes)
  /\ snap' = NoSnap
  /\ UNCHANGED <<config, closed, calls, opens, appended, live, truncated>>
  /\ UNCHANGED goroutines
  /\ UNCHANGED network

Next ==
  \/ \E v \in Values, o \in ClientOffsets : DoAppend(v, o)
  \/ \E off \in Offsets : DoRead(off)
  \/ \E lowest \in Offsets : DoTruncate(lowest)
  \/ DoClose
  \/ DoNewLog
  \/ DoReader

Spec == Init /\ [][Next]_vars

(***************************************************************************)
(* The life cycle of one Log: Append and Read with Reset, Close and a      *)
(* Close of the closed Log.                                                *)
(***************************************************************************)
\* log.Reset()
DoReset ==
  /\ ~closed
  /\ LET r == LogReset(World)
     IN /\ SetWorld(r.W)
        /\ res' = Result("Reset", 0, 0, NoRecord, r.err, <<>>)
  /\ snap' = View(World)
  /\ UNCHANGED <<config, closed, calls, opens, appended, live, truncated>>
  /\ UNCHANGED goroutines
  /\ UNCHANGED network

\* log.Close() on the Log that log.Close() has closed; res.arg is 1, and
\* snap.records holds the files as the first Close left them
DoCloseAgain ==
  /\ closed
  /\ res.op = "Close" /\ res.arg = 0
  /\ LET r == LogClose(World)
     IN /\ SetWorld(r.W)
        /\ res' = Result("Close", 1, 0, NoRecord, r.err, <<>>)
  /\ snap' = [snap EXCEPT !.records = files]
  /\ UNCHANGED <<config, closed, calls, opens, appended, live, truncated>>
  /\ UNCHANGED goroutines
  /\ UNCHANGED network

NextLife ==
  \/ \E v \in Values, o \in ClientOffsets : DoAppend(v, o)
  \/ \E off \in Offsets : DoRead(off)
  \/ DoReset
  \/ DoClose
  \/ DoCloseAgain

SpecLife == Init /\ [][NextLife]_vars

\* the Log with an InitialOffset above 1: the defaults, and an index cap of
\* one entry
InitialConfigs == {Config(0, 0, 0), Config(0, 0, 2), Config(0, endWidth, 2)}

SpecInitial == InitWith(InitialConfigs) /\ [][NextLife]_vars

(***************************************************************************)
(* The gRPC server in front of the Log.  The subject of a call is the      *)
(* common name of the client certificate; the policy is the one the tests  *)
(* install: root may produce and consume, nobody may do neither.           *)
(***************************************************************************)
objectWildcard == "*"
produceAction == "produce"
consumeAction == "consume"
Subjects == {"root", "nobody"}
Policy == {<<"root", objectWildcard, produceAction>>,
           <<"root", objectWildcard, consumeAction>>}

\* status.New(codes.PermissionDenied, msg).Err()
PermissionDenied(subject, action, object) ==
  [kind |-> "PermissionDenied", msg |-> <<subject, action, object>>]

\* an Authorize that permits everything
Authorize_Permissive(subject, object, action) == Nil

\* Authorizer.Authorize(subject, object, action)
Authorize(subject, object, action) ==
  IF <<subject, object, action>> \in Policy THEN Nil
  ELSE PermissionDenied(subject, action, object)

\* grpcServer.Produce(ctx, req): [W, offset, err]
ServerProduce(W, subject, record) ==
  IF Authorize(subject, objectWildcard, produceAction) # Nil
    THEN [W |-> W, offset |-> 0,
          err |-> Authorize(subject, objectWildcard, produceAction)]
    ELSE Bind(LogAppend(W, record), LAMBDA a :
           [W |-> a.W, offset |-> a.off, err |-> a.err])

\* grpcServer.Consume(ctx, req): [W, record, err]
ServerConsume(W, subject, off) ==
  IF Authorize(subject, objectWildcard, consumeAction) # Nil
    THEN [W |-> W, record |-> NoRecord,
          err |-> Authorize(subject, objectWildcard, consumeAction)]
    ELSE LogRead(W, off)

\* client.Produce(ctx, &api.ProduceRequest{Record: {Value: v, Offset: o}});
\* snap is what the Log showed before a call that was denied
Produce(subject, v, o) ==
  /\ calls < MaxAppends
  /\ LET r == ServerProduce(World, subject, [Value |-> v, Offset |-> o])
     IN /\ SetWorld(r.W)
        /\ res' = [Result("Produce", o, r.offset, NoRecord, r.err, <<>>)
                     EXCEPT !.value = v, !.subject = subject]
        /\ appended' = IF r.err = Nil THEN Append(appended, r.offset)
                       ELSE appended
        /\ live' = IF r.err = Nil
                     THEN [x \in DOMAIN live \cup {r.offset} |->
                             IF x = r.offset THEN v ELSE live[x]]
                     ELSE live
        /\ snap' = IF r.err.kind = "PermissionDenied" THEN View(World)
                   ELSE NoSnap
  /\ calls' = calls + 1
  /\ UNCHANGED <<config, closed, opens, truncated>>
  /\ UNCHANGED goroutines
  /\ UNCHANGED network

\* client.Consume(ctx, &api.ConsumeRequest{Offset: off})
Consume(subject, off) ==
  /\ LET r == ServerConsume(World, subject, off)
     IN /\ SetWorld(r.W)
        /\ res' = [Result("Consume", off, off, r.record, r.err, <<>>)
                     EXCEPT !.subject = subject]
  /\ snap' = NoSnap
  /\ UNCHANGED <<config, closed, calls, opens, appended, live, truncated>>
  /\ UNCHANGED goroutines
  /\ UNCHANGED network

NextServer ==
  \/ \E subject \in Subjects, v \in Values, o \in ClientOffsets :
       Produce(subject, v, o)
  \/ \E subject \in Subjects, off \in Offsets : Consume(subject, off)

SpecServer == Init /\ [][NextServer]_vars

(***************************************************************************)
(* The streams of the gRPC server: one ProduceStream and one ConsumeStream *)
(* of the root client next to its unary Produce.  The transport loses and  *)
(* reorders nothing and stream.Send does not fail.                         *)
(***************************************************************************)
\* the offsets a ConsumeStream is started at
StreamStarts == {0, 1}

\* one round of the loop of ProduceStream that takes the newest request
\* instead of the oldest
ProduceStreamStep_Newest(W, ps) ==
  Bind(ServerProduce(W, "root", ps.inbox[Len(ps.inbox)]), LAMBDA r :
    IF r.err # Nil
      THEN [W |-> r.W, offset |-> 0, ps |-> [ps EXCEPT !.err = r.err]]
      ELSE [W |-> r.W, offset |-> r.offset,
            ps |-> [ps EXCEPT !.inbox = SubSeq(@, 1, Len(@) - 1),
                              !.resp = Append(@, r.offset)]])

\* one round of the loop of ProduceStream: stream.Recv(), s.Produce and
\* stream.Send(res), or the return of the error: [W, offset, ps]
ProduceStreamStep(W, ps) ==
  Bind(ServerProduce(W, "root", Head(ps.inbox)), LAMBDA r :
    IF r.err # Nil
      THEN [W |-> r.W, offset |-> 0, ps |-> [ps EXCEPT !.err = r.err]]
      ELSE [W |-> r.W, offset |-> r.offset,
            ps |-> [ps EXCEPT !.inbox = Tail(@), !.resp = Append(@, r.offset)]])

\* one round of the loop of ConsumeStream that leaves req.Offset as it is
ConsumeStreamStep_NoIncrement(W, cs) ==
  IF cs.ctxDone THEN [W |-> W, cs |-> [cs EXCEPT !.at = "done"]]
  ELSE Bind(ServerConsume(W, "root", cs.offset), LAMBDA r :
    IF r.err = Nil
      THEN [W |-> r.W, cs |-> [cs EXCEPT !.out = Append(@, r.record)]]
    ELSE IF r.err.kind = "ErrorOffsetOutOfRange" THEN [W |-> r.W, cs |-> cs]
    ELSE [W |-> r.W, cs |-> [cs EXCEPT !.at = "done", !.err = r.err]])

\* one round of the loop of ConsumeStream: the select on the context, then
\* s.Consume, the switch on the error, stream.Send(res) and req.Offset++:
\* [W, cs]
ConsumeStreamStep(W, cs) ==
  IF cs.ctxDone THEN [W |-> W, cs |-> [cs EXCEPT !.at = "done"]]
  ELSE Bind(ServerConsume(W, "root", cs.offset), LAMBDA r :
    IF r.err = Nil
      THEN [W |-> r.W, cs |-> [cs EXCEPT !.out = Append(@, r.record),
                                         !.offset = @ + 1]]
    ELSE IF r.err.kind = "ErrorOffsetOutOfRange" THEN [W |-> r.W, cs |-> cs]
    ELSE [W |-> r.W, cs |-> [cs EXCEPT !.at = "done", !.err = r.err]])

LogVars == <<config, closed, opens, truncated, res, snap>>

\* stream.Send(&api.ProduceRequest{Record: {Value: v}}) of the client
PSSend(v) ==
  /\ calls < MaxAppends
  /\ srv.ps.err = Nil
  /\ srv' = [srv EXCEPT !.ps.inbox = Append(@, [Value |-> v, Offset |-> 0]),
                        !.ps.sent = Append(@, v)]
  /\ calls' = calls + 1
  /\ UNCHANGED <<files, dir, segs, l, appended, live, peer, repl, membership, agent>>
  /\ UNCHANGED LogVars
  /\ UNCHANGED goroutines

\* the ProduceStream handler serves a request
PSServe ==
  /\ srv.ps.err = Nil
  /\ srv.ps.inbox # <<>>
  /\ LET r == ProduceStreamStep(World, srv.ps)
     IN /\ SetWorld(r.W)
        /\ srv' = [srv EXCEPT !.ps = r.ps]
        /\ appended' = IF r.ps.err = Nil THEN Append(appended, r.offset)
                       ELSE appended
        /\ live' = IF r.ps.err = Nil
                     THEN [x \in DOMAIN live \cup {r.offset} |->
                             IF x = r.offset THEN Head(srv.ps.inbox).Value
                             ELSE live[x]]
                     ELSE live
  /\ UNCHANGED <<calls, peer, repl, membership, agent>>
  /\ UNCHANGED LogVars
  /\ UNCHANGED goroutines

\* client.ConsumeStream(ctx, &api.ConsumeRequest{Offset: start})
CSOpen(start) ==
  /\ srv.cs.at = "none"
  /\ srv' = [srv EXCEPT !.cs.at = "open", !.cs.start = start,
                        !.cs.offset = start]
  /\ UNCHANGED <<files, dir, segs, l, calls, appended, live, peer, repl, membership, agent>>
  /\ UNCHANGED LogVars
  /\ UNCHANGED goroutines

\* the ConsumeStream handler goes once round its loop
CSStep ==
  /\ srv.cs.at = "open"
  /\ \E r \in {ConsumeStreamStep(World, srv.cs)} :
       /\ SetWorld(r.W)
       /\ srv' = [srv EXCEPT !.cs = r.cs]
  /\ UNCHANGED <<calls, appended, live, peer, repl, membership, agent>>
  /\ UNCHANGED LogVars
  /\ UNCHANGED goroutines

\* the client cancels the context of the ConsumeStream
CSCancel ==
  /\ srv.cs.at = "open"
  /\ ~srv.cs.ctxDone
  /\ srv' = [srv EXCEPT !.cs.ctxDone = TRUE]
  /\ UNCHANGED <<files, dir, segs, l, calls, appended, live, peer, repl, membership, agent>>
  /\ UNCHANGED LogVars
  /\ UNCHANGED goroutines

\* the configurations of the streams' Log: the agent's, and a store that is
\* full after two records with offsets from 1
StreamConfigs == {Config(0, 0, 0), Config(16, 0, 1), Config(0, 30, 1)}

InitStream == InitWith(StreamConfigs)

NextStream ==
  \/ \E v \in Values : PSSend(v)
  \/ PSServe
  \/ \E start \in StreamStarts : CSOpen(start)
  \/ CSStep
  \/ CSCancel
  \/ \E v \in Values : Produce("root", v, 0)

SpecStream == InitStream /\ [][NextStream]_vars

\* the handler of the ConsumeStream is a goroutine that keeps running
SpecStreamFair == SpecStream /\ WF_vars(CSStep)

(***************************************************************************)
(* Concurrent callers.  Each goroutine calls Log.Append or Log.Read; a     *)
(* step is what the goroutine does between two points where it may block   *)
(* or where another goroutine may run against the same data.  Store.Append *)
(* and Store.Read hold s.mu from their first statement to their return, so *)
(* each is one step.  A deferred Unlock runs with the return.              *)
(***************************************************************************)
SpecVars == <<config, closed, opens, appended, live, truncated, snap>>

\* a Lock that never waits
CanLock_NoWait(m) == TRUE

\* l.mu.Lock() returns when no goroutine holds the lock
CanLock(m) == m.writer = 0 /\ m.readers = {}

\* l.mu.RLock() returns when no writer holds the lock
CanRLock(m) == m.writer = 0

\* the offsets the concurrent readers ask for: those appended so far and the
\* one after them
ReadTargets ==
  {o \in Offsets : /\ config.InitialOffset <= o
                   /\ o <= config.InitialOffset + Len(returned)}

\* a goroutine other than p stands in a call of Log.Append
Calling(p) ==
  \E q \in Procs \ {p} :
    pc[q].at \in {"Append.Lock", "Append.segment", "Append.index"}

\* the configurations of the concurrent runs: a store that is full after two
\* records, and an index with room for two entries and a half
ConcConfigs == {Config(16, 0, 1), Config(0, 30, 1)}

InitConc == InitWith(ConcConfigs)

\* go log.Append(&api.Record{Value: v}): the call, up to l.mu.Lock()
AppendCall(p, v) ==
  /\ pc[p] = Idle
  /\ calls < MaxAppends
  /\ pc' = [pc EXCEPT ![p] = [at |-> "Append.Lock", value |-> v,
                               raced |-> Calling(p)]]
  /\ calls' = calls + 1
  /\ UNCHANGED <<files, dir, segs, l, res, mu, locked, returned>>
  /\ UNCHANGED SpecVars
  /\ UNCHANGED network

\* l.mu.Lock() returns
AppendLock(p) ==
  /\ pc[p].at = "Append.Lock"
  /\ CanLock(mu)
  /\ mu' = [mu EXCEPT !.writer = p]
  /\ locked' = locked + 1
  /\ pc' = [pc EXCEPT ![p] =
              [at |-> "Append.segment", value |-> pc[p].value,
               ticket |-> locked + 1,
               raced |-> pc[p].raced \/ Calling(p)]]
  /\ UNCHANGED <<files, dir, segs, l, calls, res, returned>>
  /\ UNCHANGED SpecVars
  /\ UNCHANGED network

\* l.activeSegment.Append(record) up to the return of s.store.Append; an
\* error is returned to the caller
AppendStore(p) ==
  /\ pc[p].at = "Append.segment"
  /\ LET sid == l.activeSegment
         a == segmentAppendStore(files, segs[sid],
                                 [Value |-> pc[p].value, Offset |-> 0])
     IN /\ files' = a.files
        /\ segs' = [segs EXCEPT ![sid] = a.segment]
        /\ IF a.err # Nil
             THEN /\ pc' = [pc EXCEPT ![p] = Idle]
                  /\ mu' = [mu EXCEPT !.writer = 0]
                  /\ res' = [Result("Append", 0, 0, NoRecord, a.err, <<>>)
                               EXCEPT !.value = pc[p].value,
                                      !.conc = pc[p].raced]
             ELSE /\ pc' = [pc EXCEPT ![p] =
                              [at |-> "Append.index", value |-> pc[p].value,
                               ticket |-> pc[p].ticket, raced |-> pc[p].raced,
                               sid |-> sid, cur |-> a.cur, pos |-> a.pos]]
                  /\ UNCHANGED <<mu, res>>
  /\ UNCHANGED <<dir, l, calls, locked, returned>>
  /\ UNCHANGED SpecVars
  /\ UNCHANGED network

\* the rest of segment.Append (s.index.Write, s.nextOffset++), then
\* IsMaxed and newSegment, the return and the deferred l.mu.Unlock()
AppendIndex(p) ==
  /\ pc[p].at = "Append.index"
  /\ LET w == segmentAppendIndex(files, segs[pc[p].sid], pc[p].cur, pc[p].pos)
         W1 == [World EXCEPT !.files = w.files, !.segs[pc[p].sid] = w.segment]
     IN /\ SetWorld(IF w.err # Nil THEN W1 ELSE LogRoll(W1, w.offset))
        /\ res' = [Result("Append", 0, w.offset, NoRecord, w.err, <<>>)
                     EXCEPT !.value = pc[p].value, !.conc = pc[p].raced]
        /\ returned' = IF w.err # Nil THEN returned
                       ELSE Append(returned,
                                   [ticket |-> pc[p].ticket, off |-> w.offset,
                                    value |-> pc[p].value])
  /\ pc' = [pc EXCEPT ![p] = Idle]
  /\ mu' = [mu EXCEPT !.writer = 0]
  /\ UNCHANGED <<calls, locked>>
  /\ UNCHANGED SpecVars
  /\ UNCHANGED network

\* go log.Read(off): l.mu.RLock() returns, then the search of l.segments and
\* segment.Read up to the return of s.index.Read, none of which writes; an
\* error is returned to the caller
ReadIndex(p, off) ==
  /\ pc[p] = Idle
  /\ CanRLock(mu)
  /\ LET sid == FindSegment(World, off)
         e == indexRead(files, segs[sid].index, off - segs[sid].baseOffset)
         err == IF sid = 0 \/ segs[sid].nextOffset <= off
                  THEN ErrorOffsetOutOfRange(off)
                  ELSE e.err
     IN IF err # Nil
          THEN /\ res' = [Result("Read", off, off, NoRecord, err, <<>>)
                            EXCEPT !.conc = Calling(p)]
               /\ UNCHANGED <<mu, pc>>
          ELSE /\ mu' = [mu EXCEPT !.readers = @ \cup {p}]
               /\ pc' = [pc EXCEPT ![p] =
                           [at |-> "Read.store", off |-> off, sid |-> sid,
                            pos |-> e.pos]]
               /\ UNCHANGED res
  /\ UNCHANGED <<files, dir, segs, l, calls, locked, returned>>
  /\ UNCHANGED SpecVars
  /\ UNCHANGED network

\* the rest of segment.Read (s.store.Read, proto.Unmarshal), the return and
\* the deferred l.mu.RUnlock(); res.bytes is what Store.Read found in the
\* write buffer, res.conc whether an Append was under way
ReadStore(p) ==
  /\ pc[p].at = "Read.store"
  /\ LET sid == pc[p].sid
         r == segmentReadStore(files, segs[sid], pc[p].pos)
     IN /\ files' = r.files
        /\ segs' = [segs EXCEPT ![sid] = r.segment]
        /\ res' = [Result("Read", pc[p].off, pc[p].off, r.record, r.err,
                           segs[sid].store.buf)
                     EXCEPT !.conc = Calling(p)]
  /\ pc' = [pc EXCEPT ![p] = Idle]
  /\ mu' = [mu EXCEPT !.readers = @ \ {p}]
  /\ UNCHANGED <<dir, l, calls, locked, returned>>
  /\ UNCHANGED SpecVars
  /\ UNCHANGED network

NextConc ==
  \/ \E p \in Procs, v \in Values : AppendCall(p, v)
  \/ \E p \in Procs : AppendLock(p)
  \/ \E p \in Procs : AppendStore(p)
  \/ \E p \in Procs : AppendIndex(p)
  \/ \E p \in Procs, off \in ReadTargets : ReadIndex(p, off)
  \/ \E p \in Procs : ReadStore(p)

SpecConc == InitConc /\ [][NextConc]_vars

(***************************************************************************)
(* Log.Reset and Log.Remove next to the concurrent callers.  Each of them  *)
(* calls l.Close(), which takes l.mu and releases it at its return, and    *)
(* then goes on without the lock.  opens counts the calls of the two;      *)
(* closed says that Remove has closed the Log.                             *)
(***************************************************************************)
\* os.RemoveAll(l.Dir) has run: ReadDir of the directory fails afterwards
DirRemoved == closed /\ \A q \in Procs : pc[q].at # "Remove.RemoveAll"

\* go log.Reset(): l.Close(), from l.mu.Lock() to the deferred Unlock; an
\* error of Close is returned to the caller
ResetClose(p) ==
  /\ pc[p] = Idle
  /\ ~closed
  /\ opens < MaxOpens
  /\ CanLock(mu)
  /\ \E c \in {LogClose(World)} :
       /\ SetWorld(c.W)
       /\ IF c.err # Nil
            THEN /\ res' = Result("Reset", 0, 0, NoRecord, c.err, <<>>)
                 /\ pc' = pc
            ELSE /\ pc' = [pc EXCEPT ![p] = [at |-> "Reset.setup"]]
                 /\ res' = res
  /\ opens' = opens + 1
  /\ locked' = locked + 1
  /\ UNCHANGED <<config, closed, calls, appended, live, truncated, snap>>
  /\ UNCHANGED <<mu, returned>>
  /\ UNCHANGED network

\* the rest of Log.Reset: return l.setup(); os.ReadDir fails on a directory
\* that was removed
ResetSetup(p) ==
  /\ pc[p].at = "Reset.setup"
  /\ IF DirRemoved
       THEN /\ res' = Result("Reset", 0, 0, NoRecord, ErrNotExist, <<>>)
            /\ UNCHANGED <<files, dir, segs, l>>
       ELSE /\ SetWorld(setup(World))
            /\ res' = Result("Reset", 0, 0, NoRecord, Nil, <<>>)
  /\ pc' = [pc EXCEPT ![p] = Idle]
  /\ UNCHANGED SpecVars
  /\ UNCHANGED <<calls, mu, locked, returned>>
  /\ UNCHANGED network

\* go log.Remove(): l.Close(), from l.mu.Lock() to the deferred Unlock
RemoveClose(p) ==
  /\ pc[p] = Idle
  /\ ~closed
  /\ opens < MaxOpens
  /\ CanLock(mu)
  /\ \E c \in {LogClose(World)} :
       /\ SetWorld(c.W)
       /\ IF c.err # Nil
            THEN /\ res' = Result("Remove", 0, 0, NoRecord, c.err, <<>>)
                 /\ pc' = pc
            ELSE /\ pc' = [pc EXCEPT ![p] = [at |-> "Remove.RemoveAll"]]
                 /\ res' = res
  /\ opens' = opens + 1
  /\ closed' = TRUE
  /\ locked' = locked + 1
  /\ UNCHANGED <<config, calls, appended, live, truncated, snap>>
  /\ UNCHANGED <<mu, returned>>
  /\ UNCHANGED network

\* the rest of Log.Remove: return os.RemoveAll(l.Dir); the names are gone,
\* the files stay behind the handles that are open
RemoveAll(p) ==
  /\ pc[p].at = "Remove.RemoveAll"
  /\ dir' = {}
  /\ res' = Result("Remove", 0, 0, NoRecord, Nil, <<>>)
  /\ pc' = [pc EXCEPT ![p] = Idle]
  /\ UNCHANGED <<files, segs, l>>
  /\ UNCHANGED SpecVars
  /\ UNCHANGED <<calls, mu, locked, returned>>
  /\ UNCHANGED network

InitReset == InitWith(ConcConfigs)

NextReset ==
  \/ \E p \in Procs, v \in Values : AppendCall(p, v)
  \/ \E p \in Procs : AppendLock(p)
  \/ \E p \in Procs : AppendStore(p)
  \/ \E p \in Procs : AppendIndex(p)
  \/ \E p \in Procs, off \in ReadTargets : ReadIndex(p, off)
  \/ \E p \in Procs : ReadStore(p)
  \/ \E p \in Procs : ResetClose(p)
  \/ \E p \in Procs : ResetSetup(p)
  \/ \E p \in Procs : RemoveClose(p)
  \/ \E p \in Procs : RemoveAll(p)

SpecReset == InitReset /\ [][NextReset]_vars

(***************************************************************************)
(* The Replicator of node B (internal/log), which pulls the records of the *)
(* peer node A into the local Log.  files, dir, segs and l are the Log of  *)
(* B behind LocalServer; peer holds the Log of A and the values A's        *)
(* clients appended; repl is the Replicator with the goroutines it has     *)
(* started.  Both agents are built with the same Config and both clients   *)
(* carry the root certificate.                                             *)
(***************************************************************************)
\* number of replicate goroutines started in one behaviour
MaxJoins == 1
\* the node name membership reports for the peer
Names == {"1"}
\* the transport's error of a dial or a ConsumeStream call that fails
ErrUnavailable == [kind |-> "Unavailable"]
\* log.Config{} of the agent, and an index cap of two entries and a half in
\* the place of the default's 85 entries and a third
ReplConfigs == {Config(0, 0, 0), Config(0, 30, 0)}

\* a replicate goroutine: the name it was started for, where it stands
\* ("dial" before the stream is open, "loop" in the select, "exit" after its
\* return), its leave channel, the consume stream on the peer, the offsets
\* LocalServer.Produce returned, and the error it logged; and the goroutine
\* it starts to receive: where that one stands ("none" before its start,
\* "Recv" in stream.Recv(), "send" in records <- recv.Record, "exit" after
\* its return), the record it hands over, and the records it has received
newWorker(name) ==
  [name |-> name, at |-> "dial", leave |-> "open", cs |-> NoConsumeStream,
   produced |-> <<>>, err |-> Nil,
   recv |-> "none", record |-> NoRecord, received |-> <<>>]

\* r.servers with an entry for name that holds the channel of worker w
WithServer(servers, name, w) ==
  [n \in DOMAIN servers \cup {name} |-> IF n = name THEN w ELSE servers[n]]

\* r.servers after delete(r.servers, name)
WithoutServer(servers, name) == [n \in DOMAIN servers \ {name} |-> servers[n]]

\* Replicator.Join that does not look at r.closed
ReplicatorJoin_IgnoreClosed(r, name) ==
  IF name \in DOMAIN r.servers THEN r
  ELSE [r EXCEPT !.servers = WithServer(@, name, Len(r.workers) + 1),
                 !.workers = Append(@, newWorker(name))]

\* Replicator.Join(name, addr)
ReplicatorJoin(r, name) ==
  IF r.closed THEN r
  ELSE IF name \in DOMAIN r.servers THEN r
  ELSE [r EXCEPT !.servers = WithServer(@, name, Len(r.workers) + 1),
                 !.workers = Append(@, newWorker(name))]

\* Replicator.Leave that closes the channel and keeps the entry
ReplicatorLeave_KeepEntry(r, name) ==
  IF name \notin DOMAIN r.servers THEN r
  ELSE [r EXCEPT !.panic = @ \/ r.workers[r.servers[name]].leave = "closed",
                 !.workers[r.servers[name]].leave = "closed"]

\* Replicator.Leave(name); close of a closed channel panics
ReplicatorLeave(r, name) ==
  IF name \notin DOMAIN r.servers THEN r
  ELSE [r EXCEPT !.panic = @ \/ r.workers[r.servers[name]].leave = "closed",
                 !.workers[r.servers[name]].leave = "closed",
                 !.servers = WithoutServer(@, name)]

\* Replicator.Close that does not look at r.closed
ReplicatorClose_Again(r) ==
  [r EXCEPT !.closed = TRUE,
            !.panic = @ \/ r.close = "closed",
            !.close = "closed"]

\* Replicator.Close()
ReplicatorClose(r) ==
  IF r.closed THEN r
  ELSE [r EXCEPT !.closed = TRUE,
                 !.panic = @ \/ r.close = "closed",
                 !.close = "closed"]

\* the variables of B's Log that the Replicator and its workers leave alone
ReplVars == <<config, closed, opens, truncated, snap, srv, mu, pc, locked, returned,
              membership, agent>>

\* the worker of name has returned on an error and its peer has not left
Failed(name) ==
  /\ name \in DOMAIN repl.servers
  /\ repl.workers[repl.servers[name]].at = "exit"
  /\ repl.workers[repl.servers[name]].err # Nil

\* membership calls r.Join(name, addr); res says whether the call found the
\* worker of name failed and the Replicator open, and whether it started a
\* worker
Join(name) ==
  /\ repl.closed \/ name \in DOMAIN repl.servers \/ Len(repl.workers) < MaxJoins
  /\ repl' = ReplicatorJoin(repl, name)
  /\ res' = [op |-> "Join", name |-> name,
             failed |-> Failed(name) /\ ~repl.closed,
             spawned |-> Len(repl'.workers) > Len(repl.workers)]
  /\ UNCHANGED <<files, dir, segs, l, calls, appended, live, peer>>
  /\ UNCHANGED ReplVars

\* membership calls r.Leave(name)
Leave(name) ==
  /\ repl' = ReplicatorLeave(repl, name)
  /\ res' = [op |-> "Leave", name |-> name]
  /\ UNCHANGED <<files, dir, segs, l, calls, appended, live, peer>>
  /\ UNCHANGED ReplVars

\* the agent calls r.Close()
CloseReplicator ==
  /\ repl' = ReplicatorClose(repl)
  /\ res' = [op |-> "Close", name |-> "", closed |-> repl.closed]
  /\ UNCHANGED <<files, dir, segs, l, calls, appended, live, peer>>
  /\ UNCHANGED ReplVars

\* replicate: grpc.NewClient, client.ConsumeStream from offset 0 and the
\* start of the goroutine that receives, or the return on the transport's
\* error
replicateDial(w) ==
  /\ w \in 1..Len(repl.workers)
  /\ repl.workers[w].at = "dial"
  /\ \E ok \in BOOLEAN :
       repl' = [repl EXCEPT !.workers[w] =
                  IF ok
                    THEN [@ EXCEPT !.at = "loop", !.recv = "Recv",
                                   !.cs = [NoConsumeStream EXCEPT
                                             !.at = "open", !.subject = "root"]]
                    ELSE [@ EXCEPT !.at = "exit", !.err = ErrUnavailable]]
  /\ UNCHANGED <<files, dir, segs, l, calls, appended, live, peer, res>>
  /\ UNCHANGED ReplVars

\* replicate: case record := <-records of the select, with the round of the
\* peer's ConsumeStream handler that sent the record and the stream.Recv that
\* brought it: LocalServer.Produce, and the return on its error (cc.Close()
\* ends the stream)
replicateRecord(w) ==
  /\ w \in 1..Len(repl.workers)
  /\ repl.workers[w].at = "loop"
  /\ repl.workers[w].cs.at = "open"
  /\ \E c \in {ConsumeStreamStep(peer.W, repl.workers[w].cs)} :
       /\ Len(c.cs.out) > Len(repl.workers[w].cs.out)
       /\ peer' = [peer EXCEPT !.W = c.W]
       /\ \E r \in {ServerProduce(World, "root", c.cs.out[Len(c.cs.out)])} :
            /\ SetWorld(r.W)
            /\ repl' = [repl EXCEPT !.workers[w] =
                          IF r.err = Nil
                            THEN [@ EXCEPT !.cs = c.cs,
                                           !.produced = Append(@, r.offset)]
                            ELSE [@ EXCEPT !.at = "exit", !.err = r.err,
                                           !.cs = [c.cs EXCEPT !.ctxDone = TRUE]]]
            /\ appended' = IF r.err = Nil THEN Append(appended, r.offset)
                           ELSE appended
            /\ live' = IF r.err = Nil
                         THEN [x \in DOMAIN live \cup {r.offset} |->
                                 IF x = r.offset
                                   THEN c.cs.out[Len(c.cs.out)].Value
                                   ELSE live[x]]
                         ELSE live
  /\ UNCHANGED <<calls, res>>
  /\ UNCHANGED ReplVars

\* the goroutine of replicate that receives: stream.Recv() returns an error
\* of the transport, the goroutine logs it and returns; the select of
\* replicate goes on
replicateRecvError(w) ==
  /\ w \in 1..Len(repl.workers)
  /\ repl.workers[w].at = "loop"
  /\ repl.workers[w].cs.at = "open"
  /\ repl' = [repl EXCEPT !.workers[w].cs.at = "done",
                          !.workers[w].cs.err = ErrUnavailable]
  /\ UNCHANGED <<files, dir, segs, l, calls, appended, live, peer, res>>
  /\ UNCHANGED ReplVars

\* replicate: case <-r.close and case <-leave of the select
replicateStop(w) ==
  /\ w \in 1..Len(repl.workers)
  /\ repl.workers[w].at = "loop"
  /\ repl.close = "closed" \/ repl.workers[w].leave = "closed"
  /\ repl' = [repl EXCEPT !.workers[w].at = "exit",
                          !.workers[w].cs.ctxDone = TRUE]
  /\ UNCHANGED <<files, dir, segs, l, calls, appended, live, peer, res>>
  /\ UNCHANGED ReplVars

\* a client of the peer calls Produce on it
PeerProduce(v) ==
  /\ calls < MaxAppends
  /\ \E r \in {ServerProduce(peer.W, "root", [Value |-> v, Offset |-> 0])} :
       peer' = [W |-> r.W,
                log |-> IF r.err = Nil THEN Append(peer.log, v) ELSE peer.log]
  /\ calls' = calls + 1
  /\ UNCHANGED <<files, dir, segs, l, appended, live, repl, res>>
  /\ UNCHANGED ReplVars

\* a client of B calls Produce on it
LocalProduce(v) ==
  /\ calls < MaxAppends
  /\ \E r \in {ServerProduce(World, "root", [Value |-> v, Offset |-> 0])} :
       /\ SetWorld(r.W)
       /\ appended' = IF r.err = Nil THEN Append(appended, r.offset)
                      ELSE appended
       /\ live' = IF r.err = Nil
                    THEN [x \in DOMAIN live \cup {r.offset} |->
                            IF x = r.offset THEN v ELSE live[x]]
                    ELSE live
  /\ calls' = calls + 1
  /\ UNCHANGED <<peer, repl, res>>
  /\ UNCHANGED ReplVars

InitRepl ==
  /\ config \in ReplConfigs
  /\ \E W \in {NewLog(<<>>, {}, config)} :
       /\ files = W.files
       /\ dir = W.dir
       /\ segs = W.segs
       /\ l = W.l
       /\ peer = [W |-> W, log |-> <<>>]
  /\ closed = FALSE
  /\ calls = 0
  /\ opens = 0
  /\ appended = <<>>
  /\ live = NoMap
  /\ truncated = FALSE
  /\ res = Result("NewLog", 0, 0, NoRecord, Nil, <<>>)
  /\ snap = NoSnap
  /\ mu = [writer |-> 0, readers |-> {}]
  /\ pc = [p \in Procs |-> Idle]
  /\ locked = 0
  /\ returned = <<>>
  /\ srv = NoStreams
  /\ repl = NoReplicator
  /\ membership = NoMemberShip
  /\ agent = NoAgent

Workers == 1..MaxJoins

\* the Replicator, its workers and the clients of the peer
NextReplStop ==
  \/ \E name \in Names : Join(name)
  \/ \E name \in Names : Leave(name)
  \/ CloseReplicator
  \/ \E w \in Workers : replicateDial(w)
  \/ \E w \in Workers : replicateRecord(w)
  \/ \E w \in Workers : replicateRecvError(w)
  \/ \E w \in Workers : replicateStop(w)
  \/ PeerProduce(<<7>>)

\* and the clients of the local node
NextRepl ==
  \/ NextReplStop
  \/ LocalProduce(<<>>)

SpecRepl == InitRepl /\ [][NextRepl]_vars

\* the fairness of a worker's goroutine: it is scheduled again for its dial
\* and for the cases of its select on r.close and on leave when they are ready
StopFairness ==
  \A w \in Workers :
    /\ WF_vars(replicateDial(w))
    /\ WF_vars(replicateStop(w))

\* the agents with the default Config and no client of the local node: how
\* the workers stop depends on neither
InitReplStop ==
  /\ InitRepl
  /\ config = Config(0, 0, 0)

SpecReplStop ==
  /\ InitReplStop
  /\ [][NextReplStop]_vars
  /\ StopFairness

\* and so is the case of its select on records
SpecReplFair ==
  /\ SpecRepl
  /\ StopFairness
  /\ \A w \in Workers : WF_vars(replicateRecord(w))

(***************************************************************************)
(* The two goroutines of a worker, step by step: the one that receives     *)
(* calls stream.Recv() and hands each record over on the unbuffered        *)
(* channel records, the select of replicate takes it and produces it.      *)
(***************************************************************************)
\* the receiving goroutine that calls Recv again while its record waits
CanRecv_Overwrite(wk) == wk.recv \in {"Recv", "send"}

\* the receiving goroutine is in stream.Recv(): records <- recv.Record has
\* returned
CanRecv(wk) == wk.recv = "Recv"

\* stream.Recv() returns the next record that the peer's ConsumeStream
\* handler sent; the goroutine goes on to records <- recv.Record
recvRecord(w) ==
  /\ w \in 1..Len(repl.workers)
  /\ CanRecv(repl.workers[w])
  /\ repl.workers[w].cs.at = "open"
  /\ ~repl.workers[w].cs.ctxDone
  /\ \E c \in {ConsumeStreamStep(peer.W, repl.workers[w].cs)} :
       /\ Len(c.cs.out) > Len(repl.workers[w].cs.out)
       /\ peer' = [peer EXCEPT !.W = c.W]
       /\ repl' = [repl EXCEPT !.workers[w] =
                     [@ EXCEPT !.cs = c.cs, !.recv = "send",
                               !.record = c.cs.out[Len(c.cs.out)],
                               !.received = Append(@, c.cs.out[Len(c.cs.out)])]]
  /\ UNCHANGED <<files, dir, segs, l, calls, appended, live, res>>
  /\ UNCHANGED ReplVars

\* stream.Recv() returns an error, of the transport or because cc.Close()
\* has ended the stream: the goroutine logs it and returns
recvError(w) ==
  /\ w \in 1..Len(repl.workers)
  /\ repl.workers[w].recv = "Recv"
  /\ repl' = [repl EXCEPT !.workers[w].recv = "exit",
                          !.workers[w].cs.at = "done",
                          !.workers[w].cs.err = ErrUnavailable]
  /\ UNCHANGED <<files, dir, segs, l, calls, appended, live, peer, res>>
  /\ UNCHANGED ReplVars

\* replicate: case record := <-records of the select, LocalServer.Produce,
\* and the return on its error (the deferred cc.Close() ends the stream)
replicateProduce(w) ==
  /\ w \in 1..Len(repl.workers)
  /\ repl.workers[w].at = "loop"
  /\ repl.workers[w].recv = "send"
  /\ \E r \in {ServerProduce(World, "root", repl.workers[w].record)} :
       /\ SetWorld(r.W)
       /\ repl' = [repl EXCEPT !.workers[w] =
                     IF r.err = Nil
                       THEN [@ EXCEPT !.recv = "Recv", !.record = NoRecord,
                                      !.produced = Append(@, r.offset)]
                       ELSE [@ EXCEPT !.recv = "Recv", !.record = NoRecord,
                                      !.at = "exit", !.err = r.err,
                                      !.cs.ctxDone = TRUE]]
       /\ appended' = IF r.err = Nil THEN Append(appended, r.offset)
                      ELSE appended
       /\ live' = IF r.err = Nil
                    THEN [x \in DOMAIN live \cup {r.offset} |->
                            IF x = r.offset THEN repl.workers[w].record.Value
                            ELSE live[x]]
                    ELSE live
  /\ UNCHANGED <<calls, peer, res>>
  /\ UNCHANGED ReplVars

NextWorker ==
  \/ \E name \in Names : Join(name)
  \/ \E name \in Names : Leave(name)
  \/ CloseReplicator
  \/ \E w \in Workers : replicateDial(w)
  \/ \E w \in Workers : recvRecord(w)
  \/ \E w \in Workers : recvError(w)
  \/ \E w \in Workers : replicateProduce(w)
  \/ \E w \in Workers : replicateStop(w)
  \/ \E v \in Values : PeerProduce(v)

SpecWorker == InitRepl /\ [][NextWorker]_vars

\* cc.Close() has ended the stream of worker w
StreamEnded(w) == w \in 1..Len(repl.workers) /\ repl.workers[w].cs.ctxDone

\* both goroutines of a worker keep running: the select takes a case that is
\* ready, and a Recv on a stream that cc.Close() has ended returns
WorkerFairness ==
  \A w \in Workers :
    /\ WF_vars(replicateDial(w))
    /\ WF_vars(replicateStop(w))
    /\ WF_vars(replicateProduce(w))
    /\ WF_vars(recvRecord(w))
    /\ WF_vars(StreamEnded(w) /\ recvError(w))

SpecWorkerFair == SpecWorker /\ WorkerFairness

(***************************************************************************)
(* Two nodes that replicate from each other.  Membership on each node      *)
(* reports the other one, so each Replicator starts a worker for the       *)
(* other: the worker of B is repl.workers[1]; the worker of A consumes     *)
(* from B's server on the stream srv.cs and produces to A's Log, peer.W.   *)
(***************************************************************************)
\* the records A's Log may hold in one behaviour
MaxCopies == 4

\* the worker of A: a round of B's ConsumeStream handler that sends a
\* record, stream.Recv, the hand-over, and LocalServer.Produce on A
peerReplicate ==
  /\ srv.cs.at = "open"
  /\ Len(peer.log) < MaxCopies
  /\ \E c \in {ConsumeStreamStep(World, srv.cs)} :
       /\ Len(c.cs.out) > Len(srv.cs.out)
       /\ SetWorld(c.W)
       /\ \E r \in {ServerProduce(peer.W, "root", c.cs.out[Len(c.cs.out)])} :
            /\ peer' = [W |-> r.W,
                        log |-> IF r.err = Nil
                                  THEN Append(peer.log, c.cs.out[Len(c.cs.out)].Value)
                                  ELSE peer.log]
            /\ srv' = [srv EXCEPT !.cs =
                         IF r.err = Nil THEN c.cs
                         ELSE [c.cs EXCEPT !.ctxDone = TRUE, !.at = "done"]]
  /\ UNCHANGED <<calls, appended, live, repl, res>>
  /\ UNCHANGED <<config, closed, opens, truncated, snap, mu, pc, locked, returned,
                 membership, agent>>

NextMutual ==
  \/ \E name \in Names : Join(name)
  \/ \E w \in Workers : replicateDial(w)
  \/ \E w \in Workers : replicateRecord(w)
  \/ CSOpen(0)
  \/ peerReplicate
  \/ \E v \in Values : PeerProduce(v)
  \/ \E v \in Values : LocalProduce(v)

SpecMutual == InitRepl /\ [][NextMutual]_vars

(***************************************************************************)
(* A peer that leaves and joins again: the Replicator starts a second      *)
(* worker under the name of the first.                                     *)
(***************************************************************************)
\* number of replicate goroutines started when the peer comes back
MaxRejoins == 2
Rejoiners == 1..MaxRejoins

\* membership calls r.Join(name, addr), also for a peer that was here before
JoinAgain(name) ==
  /\ repl.closed \/ name \in DOMAIN repl.servers \/ Len(repl.workers) < MaxRejoins
  /\ repl' = ReplicatorJoin(repl, name)
  /\ res' = [op |-> "Join", name |-> name,
             failed |-> Failed(name) /\ ~repl.closed,
             spawned |-> Len(repl'.workers) > Len(repl.workers)]
  /\ UNCHANGED <<files, dir, segs, l, calls, appended, live, peer>>
  /\ UNCHANGED ReplVars

NextRejoin ==
  \/ \E name \in Names : JoinAgain(name)
  \/ \E name \in Names : Leave(name)
  \/ CloseReplicator
  \/ \E w \in Rejoiners : replicateDial(w)
  \/ \E w \in Rejoiners : replicateRecord(w)
  \/ \E w \in Rejoiners : replicateStop(w)
  \/ PeerProduce(<<7>>)

SpecRejoin == InitReplStop /\ [][NextRejoin]_vars

(***************************************************************************)
(* MemberShip: serf sends its events on m.events and the eventHandler      *)
(* goroutine started by setupSerf calls the Handler for the members of     *)
(* each event (specification SpecMember).                                  *)
(*   membership.sent      the events serf has put on m.events, in order    *)
(*   membership.received  how many of them eventHandler has taken          *)
(*   membership.running   the eventHandler goroutine has not returned      *)
(*   membership.calls     the calls made on the Handler, in order          *)
(***************************************************************************)
\* the events serf may send
MaxEvents == 2

\* Config.NodeName of the local node; its peers are "1" and "2"
NodeName == "0"

\* the address the Agent of node name serves its RPCs on
RPCAddr(name) == "127.0.0.1:840" \o name

\* serf.Member of node name: the Tags are those its Agent was configured with
Member(name) == [Name |-> name, Tags |-> [k \in {"rpc_addr"} |-> RPCAddr(name)]]

\* tags[key] of a Go map: the zero value for a key that is not in the map
TagOf(tags, key) == IF key \in DOMAIN tags THEN tags[key] ELSE ""

\* the error a Handler may return
ErrHandler == [kind |-> "handler error"]

\* the lists of members serf may put in one event
MemberLists ==
  {<<Member("1")>>, <<Member(NodeName)>>,
   <<Member(NodeName), Member("1")>>, <<Member("1"), Member("2")>>}

EventTypes == {"member-join", "member-leave", "member-failed", "member-update"}

MemberEvents == [Type : EventTypes, Members : MemberLists]

\* m.serf.LocalMember().Name == member.Name
isLocal(member) == NodeName = member.Name

\* m.handler.Join(member.Name, member.Tags["rcp_addr"]); an error is logged
handleJoin(hcalls, member, err) ==
  Append(hcalls, [op |-> "Join", name |-> member.Name,
                 addr |-> TagOf(member.Tags, "rcp_addr"), err |-> err])

\* m.handler.Leave(member.Name); an error is logged
handleLeave(hcalls, member, err) ==
  Append(hcalls, [op |-> "Leave", name |-> member.Name, addr |-> "", err |-> err])

\* the error of the Handler for the i-th member of the event
HandlerErr(errs, i) == IF i \in errs THEN ErrHandler ELSE Nil

\* for _, member := range Members of a member-join event, from the i-th on
RECURSIVE rangeJoin(_, _, _, _)
rangeJoin(m, Members, i, errs) ==
  IF i > Len(Members) THEN m
  ELSE IF isLocal(Members[i]) THEN rangeJoin(m, Members, i + 1, errs)
  ELSE rangeJoin([m EXCEPT !.calls = handleJoin(m.calls, Members[i], HandlerErr(errs, i))],
                 Members, i + 1, errs)

\* for _, member := range Members of a member-leave or member-failed event,
\* from the i-th on: the local member makes eventHandler return
RECURSIVE rangeLeave(_, _, _, _)
rangeLeave(m, Members, i, errs) ==
  IF i > Len(Members) THEN m
  ELSE IF isLocal(Members[i]) THEN [m EXCEPT !.running = FALSE]
  ELSE rangeLeave([m EXCEPT !.calls = handleLeave(m.calls, Members[i], HandlerErr(errs, i))],
                  Members, i + 1, errs)

\* one turn of for e := range m.events: e is taken from the channel and the
\* switch on its type runs; errs are the members whose Handler call fails
eventHandler(m, errs) ==
  LET e == m.sent[m.received + 1]
      taken == [m EXCEPT !.received = m.received + 1]
  IN  IF e.Type = "member-join" THEN rangeJoin(taken, e.Members, 1, errs)
      ELSE IF e.Type \in {"member-leave", "member-failed"}
        THEN rangeLeave(taken, e.Members, 1, errs)
      ELSE taken

\* discovery.New: setupSerf makes m.events and starts eventHandler
NewMemberShip ==
  [running |-> TRUE, sent |-> <<>>, received |-> 0, calls |-> <<>>, left |-> FALSE]

MemberVars == <<files, dir, segs, l, config,
                closed, calls, opens, appended, live, truncated, res, snap,
                mu, pc, locked, returned, srv, peer, repl, agent>>

\* serf sends e on config.EventCh; the send waits there until eventHandler
\* takes it
SerfEvent(e) ==
  /\ Len(membership.sent) < MaxEvents
  /\ membership' = [membership EXCEPT !.sent = Append(membership.sent, e)]
  /\ UNCHANGED MemberVars

\* the eventHandler goroutine takes the next event and handles it
EventHandlerStep(errs) ==
  /\ membership.running
  /\ membership.received < Len(membership.sent)
  /\ \E m \in {eventHandler(membership, errs)} : membership' = m
  /\ UNCHANGED MemberVars

InitMember ==
  /\ InitLog({Config(0, 0, 0)})
  /\ membership = NewMemberShip
  /\ agent = NoAgent

MemberNext ==
  \/ \E e \in MemberEvents : SerfEvent(e)
  \/ \E errs \in SUBSET {1, 2} : EventHandlerStep(errs)

SpecMember == InitMember /\ [][MemberNext]_vars

(***************************************************************************)
(* Agent.Shutdown, called by several goroutines (specification SpecAgent). *)
(* The Agent owns the Log, the gRPC server, the MemberShip and the         *)
(* Replicator that New has built.                                          *)
(*   agent.shutdown      a.shutdown                                        *)
(*   agent.shutdowns     the channel a.shutdowns: "open" or "closed"       *)
(*   agent.shutdownLock  the goroutine that holds a.shutdownLock, or 0     *)
(*   agent.server        "serving", or "stopped" after GracefulStop        *)
(*   agent.steps         the shutdown functions that were called, in order *)
(*   agent.pc            where each goroutine stands in Shutdown           *)
(*   agent.ncalls        the Shutdown calls each goroutine has begun       *)
(*   agent.returned      the calls that returned, in order: the goroutine, *)
(*                       the a.shutdown it found, how many functions it    *)
(*                       called, and its result                            *)
(*   agent.panic         a closed channel was closed again                 *)
(***************************************************************************)
\* the Shutdown calls of one goroutine
MaxShutdowns == 2

\* the functions of the shutdown slice, in its order
ShutdownFns == <<"membership.Leave", "replicator.Close", "server.GracefulStop", "log.Close">>

\* the error m.serf.Leave() may return
ErrLeave == [kind |-> "serf: Leave timeout"]

\* agent.New(config)
NewAgent ==
  [shutdown |-> FALSE, shutdowns |-> "open", shutdownLock |-> 0,
   server |-> "serving", steps |-> <<>>,
   pc |-> [p \in Procs |-> [at |-> "idle", i |-> 0]],
   ncalls |-> [p \in Procs |-> 0],
   returned |-> <<>>, panic |-> FALSE]

\* close(a.shutdowns) without a.shutdown = true
ShutdownBegin_NoFlag(a) ==
  [a EXCEPT !.shutdowns = "closed", !.panic = a.panic \/ a.shutdowns = "closed"]

\* a.shutdown = true; close(a.shutdowns)
ShutdownBegin(a) ==
  [a EXCEPT !.shutdown = TRUE, !.shutdowns = "closed",
            !.panic = a.panic \/ a.shutdowns = "closed"]

\* return err of Shutdown by goroutine p, which found a.shutdown = found:
\* the deferred a.shutdownLock.Unlock() runs
ShutdownReturn(a, p, found, err) ==
  [a EXCEPT !.shutdownLock = 0,
            !.pc[p] = [at |-> "idle", i |-> 0],
            !.returned = Append(a.returned,
                                [p |-> p, found |-> found, ran |-> a.pc[p].i, err |-> err])]

AgentVars == <<config, calls, opens, appended, live, truncated, res, snap,
               mu, pc, locked, returned, srv, peer>>

\* goroutine p calls a.Shutdown() and reaches a.shutdownLock.Lock()
ShutdownCall(p) ==
  /\ agent.pc[p].at = "idle"
  /\ agent.ncalls[p] < MaxShutdowns
  /\ agent' = [agent EXCEPT !.pc[p].at = "lock", !.ncalls[p] = agent.ncalls[p] + 1]
  /\ UNCHANGED <<files, dir, segs, l, closed, repl, membership>>
  /\ UNCHANGED AgentVars

\* a.shutdownLock.Lock() returns
ShutdownLock(p) ==
  /\ agent.pc[p].at = "lock"
  /\ agent.shutdownLock = 0
  /\ agent' = [agent EXCEPT !.shutdownLock = p, !.pc[p].at = "check"]
  /\ UNCHANGED <<files, dir, segs, l, closed, repl, membership>>
  /\ UNCHANGED AgentVars

\* if a.shutdown { return nil }; a.shutdown = true; close(a.shutdowns)
ShutdownCheck(p) ==
  /\ agent.pc[p].at = "check"
  /\ agent' = IF agent.shutdown
                THEN ShutdownReturn(agent, p, TRUE, Nil)
                ELSE [ShutdownBegin(agent) EXCEPT !.pc[p].at = "range"]
  /\ UNCHANGED <<files, dir, segs, l, closed, repl, membership>>
  /\ UNCHANGED AgentVars

\* one turn of for _, fn := range shutdown: fn() is called and its error
\* returned; after the last function Shutdown returns nil
ShutdownStep(p) ==
  /\ agent.pc[p].at = "range"
  /\ LET i == agent.pc[p].i + 1
         called == [agent EXCEPT !.steps = Append(agent.steps, ShutdownFns[i]),
                                 !.pc[p].i = i]
         next(a, err) == IF err # Nil \/ i = Len(ShutdownFns)
                           THEN ShutdownReturn(a, p, FALSE, err) ELSE a
     IN  \/ /\ ShutdownFns[i] = "membership.Leave"
            /\ \E err \in {Nil, ErrLeave} :
                 /\ membership' = [membership EXCEPT !.left = (err = Nil)]
                 /\ agent' = next(called, err)
            /\ UNCHANGED <<files, dir, segs, l, closed, repl>>
         \/ /\ ShutdownFns[i] = "replicator.Close"
            /\ repl' = ReplicatorClose(repl)
            /\ agent' = next(called, Nil)
            /\ UNCHANGED <<files, dir, segs, l, closed, membership>>
         \/ /\ ShutdownFns[i] = "server.GracefulStop"
            /\ agent' = next([called EXCEPT !.server = "stopped"], Nil)
            /\ UNCHANGED <<files, dir, segs, l, closed, repl, membership>>
         \/ /\ ShutdownFns[i] = "log.Close"
            /\ \E r \in {LogClose(World)} :
                 /\ SetWorld(r.W)
                 /\ agent' = next(called, r.err)
            /\ closed' = TRUE
            /\ UNCHANGED <<repl, membership>>
  /\ UNCHANGED AgentVars

InitAgent ==
  /\ InitLog(Configs)
  /\ membership = NewMemberShip
  /\ agent = NewAgent

NextAgent ==
  \/ \E p \in Procs : ShutdownCall(p)
  \/ \E p \in Procs : ShutdownLock(p)
  \/ \E p \in Procs : ShutdownCheck(p)
  \/ \E p \in Procs : ShutdownStep(p)

SpecAgent == InitAgent /\ [][NextAgent]_vars

(***************************************************************************)
(* One segment used directly, as TestSegment and TestStoreAppendRead use   *)
(* it (specifications SpecSegment and SpecSegmentFail).  The segment is    *)
(* segs[1].                                                                *)
(*   calls      number of segment.Append calls made                        *)
(*   appended   the offsets the successful calls returned, in order        *)
(*   live       offset -> value, for the offsets returned                  *)
(*   returned   what the Store.Append calls inside them returned when they *)
(*              succeeded, in order, each with its payload p               *)
(*   res        the last call: for Append the nextOffset before it (arg)   *)
(*              and the offsets that could be read before it (readable)    *)
(***************************************************************************)
\* the base offsets of the segment
SegBases == {0, 16}

\* the Config of the segment: a store cap that is not set or 1024, and an
\* index cap of one entry, of two entries, and of two entries and a half
SegConfigs ==
  {Config(ms, mi, 0) : ms \in {0, DefaultMaxBytes}, mi \in {endWidth, 2 * endWidth, 30}}

\* a value that does not fit in the store's write buffer
Big == [k \in 1..BufSize |-> 0]
SegValues == Values \cup {Big}

\* the offsets of segs[1] that segment.Read returns with the value appended
Readable ==
  {o \in DOMAIN live :
     \E r \in {segmentRead(files, segs[1], o)} :
       r.err = Nil /\ r.record.Value = live[o] /\ r.record.Offset = o}

SegVars == <<l, config, closed, truncated, snap, mu, pc, locked>>

\* s.Append(&api.Record{Value: v})
SegAppend(v) ==
  /\ calls < MaxAppends
  /\ \E p \in {Marshal([Value |-> v, Offset |-> segs[1].nextOffset])} :
     \E a \in {StoreAppend(files, segs[1].store, p)} :
     \E r \in {segmentAppend(files, segs[1], [Value |-> v, Offset |-> 0])} :
       /\ files' = r.files
       /\ segs' = [segs EXCEPT ![1] = r.segment]
       /\ returned' = IF a.err # Nil THEN returned
                      ELSE Append(returned, [p |-> p, n |-> a.n, pos |-> a.pos])
       /\ appended' = IF r.err = Nil THEN Append(appended, r.offset) ELSE appended
       /\ live' = IF r.err = Nil
                    THEN [x \in DOMAIN live \cup {r.offset} |->
                            IF x = r.offset THEN v ELSE live[x]]
                    ELSE live
       /\ res' = [op |-> "Append", arg |-> segs[1].nextOffset, off |-> r.offset,
                  err |-> r.err, readable |-> Readable]
  /\ calls' = calls + 1
  /\ UNCHANGED <<dir, opens>>
  /\ UNCHANGED SegVars
  /\ UNCHANGED network

\* s.Read(off), for the offsets from the base of the segment on: what it
\* leaves behind is the store's flushed buffer
SegRead(off) ==
  /\ off >= segs[1].baseOffset
  /\ \E r \in {segmentRead(files, segs[1], off)} :
       /\ files' = r.files
       /\ segs' = [segs EXCEPT ![1] = r.segment]
  /\ res' = [op |-> "Read"]
  /\ UNCHANGED <<dir, calls, opens, appended, live, returned>>
  /\ UNCHANGED SegVars
  /\ UNCHANGED network

\* s.Close(), then newSegment(dir, baseOffset, c) on the same files
SegReopen ==
  /\ opens < MaxOpens
  /\ \E c \in {segmentClose(files, segs[1])} :
     \E n \in {newSegment(c.files, dir, segs[1].baseOffset, config)} :
       /\ c.err = Nil
       /\ files' = n.files
       /\ dir' = n.dir
       /\ segs' = [segs EXCEPT ![1] = n.segment]
       /\ res' = [op |-> "newSegment", arg |-> segs[1].nextOffset,
                  off |-> n.segment.nextOffset, err |-> Nil, readable |-> Readable]
  /\ opens' = opens + 1
  /\ UNCHANGED <<calls, appended, live, returned>>
  /\ UNCHANGED SegVars
  /\ UNCHANGED network

\* the device fills up: from now on a write to the store file fails
DiskFull ==
  /\ ~files[segs[1].store.fid].full
  /\ files' = [files EXCEPT ![segs[1].store.fid].full = TRUE]
  /\ res' = [op |-> "ENOSPC"]
  /\ UNCHANGED <<dir, segs, calls, opens, appended, live, returned>>
  /\ UNCHANGED SegVars
  /\ UNCHANGED network

\* newSegment(dir, b, c) in an empty directory
InitSegmentWith(C) ==
  /\ config \in C
  /\ \E b \in SegBases :
     \E n \in {newSegment(<<>>, {}, b, config)} :
       /\ files = n.files
       /\ dir = n.dir
       /\ segs = <<n.segment>>
       /\ res = [op |-> "newSegment", arg |-> b, off |-> n.segment.nextOffset,
                 err |-> Nil, readable |-> {}]
  /\ l = [Config |-> config, segments |-> <<1>>, activeSegment |-> 1]
  /\ closed = FALSE
  /\ calls = 0
  /\ opens = 0
  /\ appended = <<>>
  /\ live = NoMap
  /\ truncated = FALSE
  /\ snap = NoSnap
  /\ mu = [writer |-> 0, readers |-> {}]
  /\ pc = [p \in Procs |-> Idle]
  /\ locked = 0
  /\ returned = <<>>
  /\ srv = NoStreams
  /\ peer = NoPeer
  /\ repl = NoReplicator
  /\ membership = NoMemberShip
  /\ agent = NoAgent

InitSegment == InitSegmentWith(SegConfigs)

SegOffsets == {b + k : b \in SegBases, k \in 0..MaxAppends}

NextSegment ==
  \/ \E v \in SegValues : SegAppend(v)
  \/ \E off \in SegOffsets : SegRead(off)
  \/ SegReopen

SpecSegment == InitSegment /\ [][NextSegment]_vars

NextSegmentFail ==
  \/ NextSegment
  \/ DiskFull

SpecSegmentFail == InitSegment /\ [][NextSegmentFail]_vars

(***************************************************************************)
(* A segment whose process stops without Close: the index file keeps the   *)
(* length newIndex gave it, MaxIndexBytes, and the next process opens the   *)
(* segment on the files as they are.  opens counts the stops.              *)
(***************************************************************************)
\* an index cap of three entries, and of two entries and a half
CrashConfigs == {Config(0, 3 * endWidth, 0), Config(0, 30, 0)}

\* the process stops at a moment when the store's write buffer is empty (a
\* Read has flushed it); a new process calls newSegment(dir, baseOffset, c)
SegCrash ==
  /\ opens < MaxOpens
  /\ segs[1].store.buf = <<>>
  /\ \E n \in {newSegment(files, dir, segs[1].baseOffset, config)} :
       /\ files' = n.files
       /\ dir' = n.dir
       /\ segs' = [segs EXCEPT ![1] = n.segment]
       /\ res' = [op |-> "crash", arg |-> segs[1].nextOffset,
                  off |-> n.segment.nextOffset, err |-> Nil, readable |-> {}]
  /\ opens' = opens + 1
  /\ UNCHANGED <<calls, appended, live, returned>>
  /\ UNCHANGED SegVars
  /\ UNCHANGED network

InitCrash == InitSegmentWith(CrashConfigs)

NextCrash ==
  \/ \E v \in Values : SegAppend(v)
  \/ \E off \in SegOffsets : SegRead(off)
  \/ SegCrash

SpecCrash == InitCrash /\ [][NextCrash]_vars

(***************************************************************************)
(* The index of a new segment on its own: Write and Read of its entries.   *)
(* returned holds the (off, pos) pairs of the Writes that succeeded, res   *)
(* the last call with what it returned; a Write also records the size and  *)
(* the entries it found.                                                   *)
(***************************************************************************)
\* room for two entries, and for two entries and a half
IdxConfigs == {Config(0, 2 * endWidth, 0), Config(0, 30, 0)}
\* the relative offsets and store positions written
IdxOffs == {0, 1, 5}
IdxPoss == {0, 13}
\* the entry numbers read, [hi, lo] for hi * 2^32 + lo: -1, entries written
\* or not, and int64 values past the range of uint32
IdxReads ==
  {[hi |-> 0, lo |-> k] : k \in -1..2} \cup {[hi |-> 1, lo |-> k] : k \in 0..2}

\* i.Write(off, pos)
IdxWrite(off, pos) ==
  /\ \E w \in {indexWrite(files, segs[1].index, off, pos)} :
       /\ files' = w.files
       /\ segs' = [segs EXCEPT ![1].index = w.index]
       /\ returned' = IF w.err # Nil THEN returned
                      ELSE Append(returned, [off |-> off, pos |-> pos])
       /\ res' = [op |-> "Write", arg |-> <<off, pos>>, err |-> w.err,
                  size |-> segs[1].index.size,
                  entries |-> files[segs[1].index.fid].entries]
  /\ UNCHANGED <<dir, calls, opens, appended, live>>
  /\ UNCHANGED SegVars
  /\ UNCHANGED network

\* i.Read(in)
IdxRead(in) ==
  /\ \E r \in {indexReadInt64(files, segs[1].index, in.hi, in.lo)} :
       res' = [op |-> "Read", arg |-> in, out |-> r.out, pos |-> r.pos,
               err |-> r.err]
  /\ UNCHANGED <<files, dir, segs, calls, opens, appended, live, returned>>
  /\ UNCHANGED SegVars
  /\ UNCHANGED network

InitIndex ==
  /\ config \in IdxConfigs
  /\ \E n \in {newSegment(<<>>, {}, 0, config)} :
       /\ files = n.files
       /\ dir = n.dir
       /\ segs = <<n.segment>>
  /\ res = [op |-> "newIndex"]
  /\ l = [Config |-> config, segments |-> <<1>>, activeSegment |-> 1]
  /\ closed = FALSE
  /\ calls = 0
  /\ opens = 0
  /\ appended = <<>>
  /\ live = NoMap
  /\ truncated = FALSE
  /\ snap = NoSnap
  /\ mu = [writer |-> 0, readers |-> {}]
  /\ pc = [p \in Procs |-> Idle]
  /\ locked = 0
  /\ returned = <<>>
  /\ srv = NoStreams
  /\ peer = NoPeer
  /\ repl = NoReplicator
  /\ membership = NoMemberShip
  /\ agent = NoAgent

NextIndex ==
  \/ \E off \in IdxOffs, pos \in IdxPoss : IdxWrite(off, pos)
  \/ \E in \in IdxReads : IdxRead(in)

SpecIndex == InitIndex /\ [][NextIndex]_vars

(***************************************************************************)
(* NewLog on a data directory as an earlier process left it: each base     *)
(* offset has its store file, its index file, both or none (newSegment     *)
(* creates the store file before the index file, segment.Remove removes    *)
(* the index file before the store file).                                  *)
(***************************************************************************)
SetupBases == {0, 2, 5}
SetupFiles == SetupBases \X {".store", ".index"}
SetupConfigs == {Config(0, 0, 0), Config(0, 0, 4)}

\* the directory that holds an empty file for each of names
RECURSIVE CreateFiles(_, _, _)
CreateFiles(fs, d, names) ==
  IF names = {} THEN [files |-> fs, dir |-> d]
  ELSE LET n == CHOOSE m \in names :
                  \A o \in names :
                    m[1] < o[1] \/ (m[1] = o[1] /\ (m[2] = ".store" \/ m = o))
           f == OpenFile(fs, d, n[1], n[2])
       IN CreateFiles(f.files, f.dir, names \ {n})

InitSetup ==
  /\ config \in SetupConfigs
  /\ \E names \in SUBSET SetupFiles :
     \E f \in {CreateFiles(<<>>, {}, names)} :
       /\ files = f.files
       /\ dir = f.dir
  /\ segs = <<>>
  /\ l = [Config |-> config, activeSegment |-> 0, segments |-> <<>>]
  /\ closed = TRUE
  /\ calls = 0
  /\ opens = 0
  /\ appended = <<>>
  /\ live = NoMap
  /\ truncated = FALSE
  /\ res = [op |-> "none"]
  /\ snap = NoSnap
  /\ mu = [writer |-> 0, readers |-> {}]
  /\ pc = [p \in Procs |-> Idle]
  /\ locked = 0
  /\ returned = <<>>
  /\ srv = NoStreams
  /\ peer = NoPeer
  /\ repl = NoReplicator
  /\ membership = NoMemberShip
  /\ agent = NoAgent

NextSetup ==
  \/ DoNewLog
  \/ DoClose

SpecSetup == InitSetup /\ [][NextSetup]_vars

(***************************************************************************)
(* Properties of the Log under Append, Read, Truncate, Close, NewLog and   *)
(* Reader (specification Spec).                                            *)
(***************************************************************************)
\* the segment of the Log that holds offset o, as a position of l.segments
Holder(W, o) ==
  {i \in 1..Len(W.l.segments) :
     /\ W.segs[W.l.segments[i]].baseOffset <= o
     /\ o < W.segs[W.l.segments[i]].nextOffset}

\* C1: on a Log opened on an empty directory, the k-th successful Append
\* returns InitialOffset + k - 1, across rollovers (and across Close and
\* NewLog), as long as Truncate has removed nothing.
C1_ContiguousOffsets ==
  ~truncated =>
    \A k \in 1..Len(appended) : appended[k] = l.Config.InitialOffset + k - 1

C1_Witness ==
  /\ ~truncated
  /\ res.op = "Append" /\ res.err = Nil
  /\ Len(appended) = MaxAppends
  /\ Len(l.segments) >= 2
  /\ res.off = l.Config.InitialOffset + MaxAppends - 1

\* C2: every offset returned by a successful Append whose segment Truncate
\* has not removed is read back by Log.Read on the open Log, with the payload
\* appended there and the offset field equal to the offset.
C2_ReadBack ==
  /\ ~closed =>
       \A o \in DOMAIN live :
         /\ LogRead(World, o).err = Nil
         /\ LogRead(World, o).record = [Value |-> live[o], Offset |-> o]
  /\ (res.op = "Read" /\ res.arg \in DOMAIN live) =>
       /\ res.err = Nil
       /\ res.record = [Value |-> live[res.arg], Offset |-> res.arg]

C2_Witness ==
  /\ res.op = "Read" /\ res.err = Nil
  /\ res.arg \in DOMAIN live
  /\ res.record.Value = <<7>>
  /\ Len(l.segments) >= 2
  /\ res.arg > 0
  /\ res.arg < segs[l.segments[Len(l.segments)]].baseOffset

\* C3: Read(o) of an offset o >= HighestOffset + 1 or o < LowestOffset returns
\* no record and fails with ErrorOffsetOutOfRange{o}.
OutOfRange(W, o) ==
  /\ W.l.segments # <<>>
  /\ o >= HighestOffset(W) + 1 \/ o < LowestOffset(W)

C3_OutOfRangeError ==
  /\ \A o \in Offsets :
       OutOfRange(World, o) =>
         /\ LogRead(World, o).record = NoRecord
         /\ LogRead(World, o).err = ErrorOffsetOutOfRange(o)
  /\ (res.op = "Read" /\ OutOfRange(World, res.arg)) =>
       /\ res.record = NoRecord
       /\ res.err = ErrorOffsetOutOfRange(res.arg)

C3_Witness ==
  /\ res.op = "Read"
  /\ appended # <<>>
  /\ res.arg = HighestOffset(World) + 1
  /\ res.record = NoRecord
  /\ res.err = ErrorOffsetOutOfRange(res.arg)

\* C4: Close leaves LowestOffset and HighestOffset as they were, and NewLog
\* on the same directory with the same Config after the Close yields the
\* same LowestOffset, the same HighestOffset and the same result of Read at
\* every offset as before the Close.
C4_ReopenPreserves ==
  /\ (res.op = "Close" /\ res.err = Nil /\ snap.ranges # <<>>) =>
       /\ LowestOffset(World) = snap.lowest
       /\ HighestOffset(World) = snap.highest
  /\ (res.op = "NewLog" /\ opens > 0 /\ snap.ranges # <<>>) =>
       /\ LowestOffset(World) = snap.lowest
       /\ HighestOffset(World) = snap.highest
       /\ Contents(World) = snap.records

C4_Witness ==
  /\ res.op = "NewLog" /\ opens > 0
  /\ Len(snap.ranges) >= 2
  /\ Len(appended) >= 2
  /\ \E o \in DOMAIN live : Contents(World)[o].err = Nil

\* C5 (as claimed): no Append on an open Log returns io.EOF.
C5_AppendNeverEOF ==
  res.op = "Append" => res.err # EOF

\* C6: Truncate(k) removes exactly the segments whose nextOffset <= k + 1 and
\* keeps the others in order; after it every offset of a retained segment
\* reads its original value and every offset of a removed segment fails with
\* ErrorOffsetOutOfRange.
Retained(r) == ~(r.nextOffset <= res.arg + 1)

InRanges(ranges, o) ==
  \E i \in 1..Len(ranges) : ranges[i].baseOffset <= o /\ o < ranges[i].nextOffset

C6_Truncate ==
  (res.op = "Truncate" /\ res.err = Nil) =>
    /\ Ranges(World) = SelectSeq(snap.ranges, Retained)
    /\ \A o \in Offsets :
         /\ InRanges(Ranges(World), o) =>
              /\ o \in DOMAIN live
              /\ Contents(World)[o] =
                   [record |-> [Value |-> live[o], Offset |-> o], err |-> Nil]
         /\ (InRanges(snap.ranges, o) /\ ~InRanges(Ranges(World), o)) =>
              Contents(World)[o] = [record |-> NoRecord, err |-> ErrorOffsetOutOfRange(o)]

C6_Witness ==
  /\ res.op = "Truncate" /\ res.err = Nil
  /\ Len(snap.ranges) >= 3
  /\ Len(l.segments) >= 1
  /\ Len(l.segments) < Len(snap.ranges)
  /\ \E o \in Offsets : InRanges(Ranges(World), o)
  /\ \E o \in Offsets : InRanges(snap.ranges, o) /\ ~InRanges(Ranges(World), o)

\* the records of the offsets of live, in offset order
RECURSIVE RecordsOf(_)
RecordsOf(offs) ==
  IF offs = {} THEN <<>>
  ELSE LET o == CHOOSE x \in offs : \A y \in offs : x <= y
       IN <<[Value |-> live[o], Offset |-> o]>> \o RecordsOf(offs \ {o})

\* C7 (as claimed): the stream of Log.Reader(), parsed as frames, is exactly
\* the retained appended records, once each, in offset order.
C7_ReaderYieldsRecords ==
  res.op = "Reader" =>
    /\ res.err = Nil
    /\ ParseFrames(res.bytes, <<>>) = [records |-> RecordsOf(DOMAIN live), err |-> Nil]

\* C8: with goroutines calling Log.Append concurrently, no two successful
\* Appends return the same offset, the offsets returned increase strictly in
\* the order in which the Appends took the writer lock, and the record at a
\* returned offset stays the one that Append stored there.
C8_ConcurrentAppends ==
  /\ \A i, j \in 1..Len(returned) :
       /\ i # j => returned[i].off # returned[j].off
       /\ returned[i].ticket < returned[j].ticket =>
            returned[i].off < returned[j].off
  /\ \A i \in 1..Len(returned) :
       LogRead(World, returned[i].off).record =
         [Value |-> returned[i].value, Offset |-> returned[i].off]

C8_Witness ==
  /\ res.op = "Append" /\ res.err = Nil /\ res.conc
  /\ calls = 2
  /\ Len(returned) = 2
  /\ returned[1].value # returned[2].value
  /\ \A p \in Procs : pc[p] = Idle

\* C9: with goroutines calling Log.Read and Log.Append concurrently, a Read
\* that succeeds returns the payload and the offset of the record appended
\* at the offset it asked for, and a Read of an offset that an Append has
\* returned succeeds, whether or not the record has left the write buffer.
C9_ConcurrentRead ==
  res.op = "Read" =>
    /\ res.err = Nil =>
         \E i \in 1..Len(returned) :
           /\ returned[i].off = res.arg
           /\ res.record = [Value |-> returned[i].value, Offset |-> res.arg]
    /\ (\E i \in 1..Len(returned) : returned[i].off = res.arg) => res.err = Nil

C9_Witness ==
  /\ res.op = "Read" /\ res.err = Nil /\ res.conc
  /\ res.bytes # <<>>
  /\ res.record.Value = <<7>>
  /\ Len(returned) >= 2
  /\ \E p \in Procs : pc[p].at = "Append.Lock"

\* C11 (as claimed): on an open Log the segment list is not empty and the
\* active segment is its last element.
C11_ActiveIsLast ==
  ~closed =>
    /\ l.segments # <<>>
    /\ l.activeSegment = l.segments[Len(l.segments)]

\* the base offsets that have a file in the directory
BasesOnDisk == {ParseUint(e.name) : e \in dir}

\* C12 (as claimed): after Reset returns nil the Log holds one open segment
\* per base offset on disk, LowestOffset and HighestOffset are what they
\* were, Read returns at every offset what it returned before, and the next
\* Append returns HighestOffset + 1.
C12_ResetReopens ==
  (res.op = "Reset" /\ res.err = Nil) =>
    /\ Len(l.segments) = Cardinality(BasesOnDisk)
    /\ \A i \in 1..Len(l.segments) :
         /\ segs[l.segments[i]].baseOffset \in BasesOnDisk
         /\ ~segs[l.segments[i]].store.closed
         /\ ~segs[l.segments[i]].index.closed
    /\ LowestOffset(World) = snap.lowest
    /\ HighestOffset(World) = snap.highest
    /\ Contents(World) = snap.records
    /\ \A v \in Values :
         LogAppend(World, [Value |-> v, Offset |-> 0]).err = Nil =>
           LogAppend(World, [Value |-> v, Offset |-> 0]).off = snap.highest + 1

\* C13 (as claimed): a Close of the closed Log returns nil and leaves the
\* files as the first Close left them.
C13_CloseTwice ==
  (res.op = "Close" /\ res.arg = 1) =>
    /\ res.err = Nil
    /\ files = snap.records

\* C14: whatever the client puts in the offset field of a produced record,
\* the record read back at the returned offset carries that offset, and the
\* Log after the Append, the offset and the error do not depend on the
\* client's value.
C14_OffsetStamped ==
  /\ (res.op = "Produce" /\ res.err = Nil) =>
       LogRead(World, res.off).record = [Value |-> res.value, Offset |-> res.off]
  /\ \A v \in Values : \A o1, o2 \in ClientOffsets :
       LogAppend(World, [Value |-> v, Offset |-> o1]) =
         LogAppend(World, [Value |-> v, Offset |-> o2])

C14_Witness ==
  /\ res.op = "Produce" /\ res.err = Nil
  /\ res.arg = 9
  /\ res.off # res.arg
  /\ Len(appended) >= 2
  /\ LogRead(World, res.off).record.Offset = res.off

\* the ConsumeStream has sent the record of offset o
Sent(o) == \E i \in 1..Len(srv.cs.out) : srv.cs.out[i].Offset = o

\* the records sent by the ConsumeStream are those of start, start + 1, ...
\* in this order, and req.Offset is the offset after the last one sent
C15_InOrder ==
  /\ srv.cs.offset = srv.cs.start + Len(srv.cs.out)
  /\ \A i \in 1..Len(srv.cs.out) :
       /\ srv.cs.start + i - 1 \in DOMAIN live
       /\ srv.cs.out[i] = [Value |-> live[srv.cs.start + i - 1],
                           Offset |-> srv.cs.start + i - 1]
  /\ srv.cs.err = Nil
  /\ srv.cs.at = "done" => srv.cs.ctxDone

\* C15: a ConsumeStream started at StartOffset sends the records of
\* StartOffset, StartOffset + 1, ... in order, without gap or repeat; past
\* the tail it sends nothing and stays in its loop, and once the offset it
\* waits for is appended the record is sent, unless the context is done.
C15_ConsumeStream ==
  /\ []C15_InOrder
  /\ \A o \in Offsets :
       (srv.cs.at = "open" /\ srv.cs.offset = o /\ o \in DOMAIN live)
         ~> (Sent(o) \/ srv.cs.ctxDone)

\* the stream waited past the tail and has sent records of two segments
C15_Witness ==
  /\ srv.cs.at = "open" /\ ~srv.cs.ctxDone
  /\ Len(srv.cs.out) >= 2
  /\ Len(l.segments) >= 2
  /\ srv.cs.offset = HighestOffset(World) + 1
  /\ srv.cs.out[1].Value # srv.cs.out[2].Value

\* C16: the i-th answer on a ProduceStream is the offset at which the i-th
\* record sent was appended, the answers increase, and on a fresh Log with
\* InitialOffset 0 and no other producer they are 0, 1, 2, ...
C16_ProduceStream ==
  /\ Len(srv.ps.resp) <= Len(srv.ps.sent)
  /\ \A i \in 1..Len(srv.ps.resp) :
       /\ LogRead(World, srv.ps.resp[i]).record =
            [Value |-> srv.ps.sent[i], Offset |-> srv.ps.resp[i]]
       /\ \A j \in 1..Len(srv.ps.resp) :
            i < j => srv.ps.resp[i] < srv.ps.resp[j]
       /\ (l.Config.InitialOffset = 0 /\ Len(appended) = Len(srv.ps.resp)) =>
            srv.ps.resp[i] = i - 1

C16_Witness ==
  /\ l.Config.InitialOffset = 0
  /\ Len(srv.ps.resp) = MaxAppends
  /\ Len(appended) = Len(srv.ps.resp)
  /\ srv.ps.resp[MaxAppends] = MaxAppends - 1
  /\ srv.ps.sent[1] # srv.ps.sent[2]

\* C17: a Produce by a subject that Authorize denies fails with
\* PermissionDenied and leaves the offsets and the contents of the Log as
\* they were; a Consume by such a subject fails with PermissionDenied and
\* returns no record, also at an offset that holds one; PermissionDenied is
\* not the out-of-range error.
C17_Denied ==
  /\ (res.op = "Produce" /\ <<res.subject, objectWildcard, produceAction>> \notin Policy) =>
       /\ res.err = PermissionDenied(res.subject, produceAction, objectWildcard)
       /\ View(World) = snap
  /\ (res.op = "Consume" /\ <<res.subject, objectWildcard, consumeAction>> \notin Policy) =>
       /\ res.err = PermissionDenied(res.subject, consumeAction, objectWildcard)
       /\ res.record = NoRecord
       /\ res.err # ErrorOffsetOutOfRange(res.arg)

\* a denied Consume of an offset that holds a record
C17_Witness ==
  /\ res.op = "Consume" /\ res.subject = "nobody"
  /\ res.err.kind = "PermissionDenied"
  /\ res.arg \in DOMAIN live
  /\ LogRead(World, res.arg).err = Nil

\* C10: the segments of the Log are in strictly increasing baseOffset order
\* and each segment starts where the one before it ends.
C10_SegmentsContiguous ==
  \A i \in 1..(Len(l.segments) - 1) :
    /\ segs[l.segments[i]].baseOffset < segs[l.segments[i + 1]].baseOffset
    /\ segs[l.segments[i]].nextOffset = segs[l.segments[i + 1]].baseOffset

C10_Witness ==
  /\ Len(l.segments) >= 3
  /\ truncated
  /\ opens > 0
  /\ res.op = "Append" /\ res.err = Nil

(***************************************************************************)
(* Properties of the Replicator (specifications SpecRepl and               *)
(* SpecReplFair).                                                          *)
(***************************************************************************)
\* B holds, at the offset worker w was given for it, the i-th record of A
Replicated(w, i) ==
  /\ w <= Len(repl.workers)
  /\ Len(repl.workers[w].produced) >= i
  /\ LogRead(World, repl.workers[w].produced[i]).record.Value = peer.log[i]

\* the worker has stopped for a reason the claim excepts: its peer has left,
\* the Replicator is closed, or the transport failed
Excused(w) ==
  /\ w <= Len(repl.workers)
  /\ \/ repl.workers[w].leave = "closed"
     \/ repl.closed
     \/ repl.workers[w].err = ErrUnavailable
     \/ repl.workers[w].cs.err = ErrUnavailable

\* C18: once B has joined A, every record appended to A's Log is eventually
\* appended to B's Log and served by B, unless the peer leaves, the
\* Replicator is closed or the transport fails.
C18_Replicates ==
  \A w \in Workers : \A i \in 1..MaxAppends :
    (w <= Len(repl.workers) /\ Len(peer.log) >= i)
      ~> (Replicated(w, i) \/ Excused(w))

\* the goroutines started for name whose leave channel is open
Running(name) ==
  {w \in 1..Len(repl.workers) :
     repl.workers[w].name = name /\ repl.workers[w].leave = "open"}

\* one goroutine runs for every entry of r.servers and none for a name
\* without entry
C19_OneWorker ==
  \A name \in Names :
    Running(name) = IF name \in DOMAIN repl.servers
                      THEN {repl.servers[name]} ELSE {}

\* what a step that is a call of Join(name) does to the Replicator
C19_JoinEffect(name) ==
  IF ~repl.closed /\ name \notin DOMAIN repl.servers
    THEN /\ Len(repl'.workers) = Len(repl.workers) + 1
         /\ SubSeq(repl'.workers, 1, Len(repl.workers)) = repl.workers
         /\ repl'.workers[Len(repl'.workers)].name = name
         /\ repl'.workers[Len(repl'.workers)].at = "dial"
         /\ DOMAIN repl'.servers = DOMAIN repl.servers \cup {name}
         /\ repl'.servers[name] = Len(repl'.workers)
         /\ \A n \in DOMAIN repl.servers : repl'.servers[n] = repl.servers[n]
    ELSE /\ repl'.workers = repl.workers
         /\ repl'.servers = repl.servers

\* C19: Join(name, addr) starts a worker exactly when the Replicator is not
\* closed and name has no entry: a Join after Close starts nothing and adds
\* no entry, a Join of a name that has an entry starts nothing, and every
\* entry has exactly one running worker.
C19_JoinSpawns ==
  /\ []C19_OneWorker
  /\ [][\A name \in Names : Join(name) => C19_JoinEffect(name)]_vars

\* a Join after Close, of a name that has left and has no entry, next to the
\* worker that was started before the Close
C19_Witness ==
  /\ res.op = "Join"
  /\ repl.closed
  /\ res.name \notin DOMAIN repl.servers
  /\ Len(repl.workers) >= 1

\* what a step that is a call of Leave(name) does to the Replicator
C20_LeaveEffect(name) ==
  IF name \in DOMAIN repl.servers
    THEN /\ repl.workers[repl.servers[name]].leave = "open"
         /\ repl'.workers =
              [repl.workers EXCEPT ![repl.servers[name]].leave = "closed"]
         /\ DOMAIN repl'.servers = DOMAIN repl.servers \ {name}
         /\ \A n \in DOMAIN repl'.servers : repl'.servers[n] = repl.servers[n]
    ELSE repl' = repl

\* a worker that has returned stays so and produces nothing more
C20_ExitIsFinal ==
  \A w \in 1..Len(repl.workers) :
    repl.workers[w].at = "exit" =>
      /\ repl'.workers[w].at = "exit"
      /\ repl'.workers[w].produced = repl.workers[w].produced

C21_CloseEffect ==
  IF repl.closed THEN repl' = repl
  ELSE /\ repl.close = "open"
       /\ repl' = [repl EXCEPT !.closed = TRUE, !.close = "closed"]

\* C21: the first Close sets closed and closes r.close, after which every
\* worker eventually returns; a later Close changes nothing; and no call of
\* Join, Leave or Close closes a channel that is closed.
C21_Close ==
  /\ []~repl.panic
  /\ [](repl.closed <=> repl.close = "closed")
  /\ [][CloseReplicator => C21_CloseEffect]_vars
  /\ \A w \in Workers :
       (w <= Len(repl.workers) /\ repl.closed)
         ~> (w <= Len(repl.workers) /\ repl.workers[w].at = "exit")

\* a second Close, after the worker, which had replicated a record and whose
\* peer has not left, has returned
C21_Witness ==
  /\ res.op = "Close"
  /\ res.closed
  /\ Len(repl.workers) >= 1
  /\ repl.workers[1].leave = "open"
  /\ repl.workers[1].err = Nil
  /\ repl.workers[1].at = "exit"
  /\ Len(repl.workers[1].produced) >= 1

\* the goroutine of worker w that receives has returned on an error
RecvFailed(w) ==
  /\ w <= Len(repl.workers)
  /\ repl.workers[w].cs.at = "done"
  /\ repl.workers[w].cs.err # Nil

\* C22: after stream.Recv has returned an error, or LocalServer.Produce
\* has, the worker returns, without a Leave and without a Close.
C22_ExitsOnError ==
  /\ [](\A w \in 1..Len(repl.workers) :
         (repl.workers[w].err # Nil) => repl.workers[w].at = "exit")
  /\ \A w \in Workers :
       RecvFailed(w) ~> (w <= Len(repl.workers) /\ repl.workers[w].at = "exit")

\* C23: a Join of a name whose worker has returned on an error of the
\* transport or of Produce starts a new worker for the name, unless the
\* Replicator is closed.
C23_Rejoin == (res.op = "Join" /\ res.failed) => res.spawned

\* the eventHandler goroutine is scheduled while an event waits on m.events
SpecMemberFair == SpecMember /\ WF_vars(\E errs \in SUBSET {1, 2} : EventHandlerStep(errs))

\* the Handler calls of one kind, in order
CallsOf(op) == SelectSeq(membership.calls, LAMBDA c : c.op = op)

\* C24: every handler.Join call of the dispatcher carries the name of a
\* member other than the local node and the value of that member's rpc_addr
\* tag, the address its Agent serves on.
C24_JoinGetsRpcAddr ==
  \A i \in 1..Len(membership.calls) :
    membership.calls[i].op = "Join" =>
      /\ membership.calls[i].name # NodeName
      /\ membership.calls[i].addr = Member(membership.calls[i].name).Tags["rpc_addr"]

\* the names of the members other than the local node in a list of members
RECURSIVE NonLocal(_)
NonLocal(Members) ==
  IF Members = <<>> THEN <<>>
  ELSE (IF isLocal(Head(Members)) THEN <<>> ELSE <<Head(Members).Name>>)
         \o NonLocal(Tail(Members))

\* the names handler.Leave is due for, by the events in evs, in order
RECURSIVE DueLeaves(_)
DueLeaves(evs) ==
  IF evs = <<>> THEN <<>>
  ELSE (IF Head(evs).Type \in {"member-leave", "member-failed"}
          THEN NonLocal(Head(evs).Members) ELSE <<>>)
         \o DueLeaves(Tail(evs))

\* the names of the handler.Leave calls made, in order
LeftNames == [i \in 1..Len(CallsOf("Leave")) |-> CallsOf("Leave")[i].name]

\* C25: the events taken from m.events have had exactly their
\* handler.Leave(name) calls, one for each member other than the local node
\* of each leave or failed event; the dispatcher never stops; and every leave
\* or failed event serf sends gets its calls, whatever was sent before it.
C25_LeaveDelivered ==
  /\ [](LeftNames = DueLeaves(SubSeq(membership.sent, 1, membership.received)))
  /\ []membership.running
  /\ \A n \in 1..(2 * MaxEvents) :
       (Len(DueLeaves(membership.sent)) >= n)
         ~> (Len(LeftNames) >= n /\ LeftNames[n] = DueLeaves(membership.sent)[n])

\* the calls of Shutdown that found a.shutdown as given
ShutdownsThat(found) ==
  {k \in 1..Len(agent.returned) : agent.returned[k].found = found}

IndexRoom == config.MaxIndexBytes \div endWidth
Base == segs[1].baseOffset

\* what TestSegment looks at, for the segment segs[1] after calls appends:
\* fresh, it has nextOffset at its base and is not maxed; the first
\* IndexRoom appends returned the offsets from the base on; every offset
\* returned is read back with its value; the segment is maxed from the
\* IndexRoom-th append on; an append after that fails with io.EOF
SegmentFills ==
  /\ (calls = 0 /\ opens = 0) => (segs[1].nextOffset = Base /\ ~IsMaxed(segs[1]))
  /\ appended = [k \in 1..Min(calls, IndexRoom) |-> Base + k - 1]
  /\ Readable = DOMAIN live
  /\ calls >= IndexRoom => IsMaxed(segs[1])
  /\ (res.op = "Append" /\ calls > IndexRoom) => (res.err = EOF /\ res.readable = DOMAIN live)

RECURSIVE SizeBefore(_)
SizeBefore(k) ==
  IF k = 1 THEN 0 ELSE SizeBefore(k - 1) + lenWidth + Len(returned[k - 1].p)

C30_FailedAppend ==
  res.op = "Append" =>
    /\ res.err # Nil => (segs[1].nextOffset = res.arg /\ res.readable \subseteq Readable)
    /\ res.err = Nil => (res.off = res.arg /\ segs[1].nextOffset = res.arg + 1)

\* the open Log that holds records returns the offset of the last successful
\* Append, as long as Truncate has removed nothing
HighestOfRecords ==
  (~closed /\ ~truncated /\ appended # <<>>) =>
    HighestOffset(World) = appended[Len(appended)]

\* C29: on the open Log HighestOffset returns 0 while no record was
\* appended, whatever Config.InitialOffset is, and the offset of the last
\* successful Append afterwards.
C29_HighestOffset ==
  ~closed =>
    HighestOffset(World) = IF appended = <<>> THEN 0 ELSE appended[Len(appended)]

\* a Reset or a Remove stands between its Close and its setup or RemoveAll
BetweenSteps(P) == \E q \in Procs : P[q].at \in {"Reset.setup", "Remove.RemoveAll"}

\* C31: Reset and Remove hold the writer lock from the start of Close to the
\* end of setup or of the removal of the directory: while one of them stands
\* between the two steps no other caller takes l.mu, and none observes or
\* changes the Log
C31_ResetUnderLock ==
  [][BetweenSteps(pc) /\ BetweenSteps(pc') =>
       UNCHANGED <<files, dir, segs, l, res, mu>>]_vars

\* C32: Read(k) returns the pair of the k-th successful Write, Read(-1) the
\* pair of the last one; Read on an empty index and Read(k) with k at or past
\* the number of entries fail with io.EOF; a Write that would pass the length
\* of the mapping fails with io.EOF and leaves size and entries as they were
C32_IndexReadWrite ==
  LET n == Len(returned)
      i == segs[1].index
      k == res.arg
      hit(e) == res.err = Nil /\ res.out = e.off /\ res.pos = e.pos
  IN /\ res.op = "Read" =>
          /\ k.hi = 0 /\ k.lo = -1 /\ n > 0 => hit(returned[n])
          /\ k.hi = 0 /\ 0 <= k.lo /\ k.lo < n => hit(returned[k.lo + 1])
          /\ n = 0 => res.err = EOF
          /\ k.hi > 0 \/ k.lo >= n => res.err = EOF
     /\ res.op = "Write" =>
          /\ res.err \in {Nil, EOF}
          /\ res.err = EOF <=> i.mmapLen < res.size + endWidth
          /\ res.err = EOF =>
               i.size = res.size /\ files[i.fid].entries = res.entries
          /\ res.err = Nil =>
               i.size = res.size + endWidth /\ n * endWidth = i.size

\* the same for the entry numbers that fit into uint32
C32_Uint32 == (res.op = "Read" => res.arg.hi = 0) => C32_IndexReadWrite

\* the base offsets of the Log's segments, in the order of l.segments
SegmentBases(W) == [i \in 1..Len(W.l.segments) |-> W.segs[W.l.segments[i]].baseOffset]

\* C33: setup makes one segment per base offset found among the file names
\* of the directory, in ascending order, the highest one active, whether one
\* file or two carry a base offset; an empty directory gets one segment at
\* Config.InitialOffset
C33_SetupPerBase ==
  [][(closed /\ ~closed') =>
       LET found == {ParseUint(e.name) : e \in dir}
           bases == SegmentBases(World)'
           n == Len(bases)
       IN /\ n > 0
          /\ l'.activeSegment = l'.segments[n]
          /\ \A i \in 1..(n - 1) : bases[i] < bases[i + 1]
          /\ {bases[i] : i \in 1..n} =
               IF found = {} THEN {config.InitialOffset} ELSE found]_vars

\* the same for directories in which every base offset has both its files
C33_Pairs ==
  [][(closed /\ ~closed') /\ (\A e \in dir : Cardinality(Lookup(dir, ParseUint(e.name), ".store") \cup Lookup(dir, ParseUint(e.name), ".index")) = 2) =>
       LET found == {ParseUint(e.name) : e \in dir}
           bases == SegmentBases(World)'
           n == Len(bases)
       IN /\ n > 0
          /\ l'.activeSegment = l'.segments[n]
          /\ \A i \in 1..(n - 1) : bases[i] < bases[i + 1]
          /\ {bases[i] : i \in 1..n} =
               IF found = {} THEN {config.InitialOffset} ELSE found]_vars

\* C34: a worker produces the records it received one at a time and in the
\* order of the peer's log: what it received is a prefix of the peer's log,
\* what it produced locally is, in the order of the local offsets, what it
\* received, and while it runs the only record received and not produced is
\* the one that waits on the channel
C34_WorkerInOrder ==
  \A w \in 1..Len(repl.workers) :
    LET wk == repl.workers[w]
    IN /\ Len(wk.received) <= Len(peer.log)
       /\ \A i \in 1..Len(wk.received) :
            wk.received[i] = [Value |-> peer.log[i], Offset |-> i - 1]
       /\ Len(wk.produced) <= Len(wk.received)
       /\ \A i \in 1..Len(wk.produced) :
            /\ live[wk.produced[i]] = wk.received[i].Value
            /\ i > 1 => wk.produced[i - 1] < wk.produced[i]
       /\ wk.at = "loop" =>
            Len(wk.received) - Len(wk.produced) = IF wk.recv = "send" THEN 1 ELSE 0

\* a worker has produced two records of different values
C34_Witness ==
  \E w \in 1..Len(repl.workers) :
    /\ Len(repl.workers[w].produced) >= 2
    /\ repl.workers[w].received[1].Value # repl.workers[w].received[2].Value
    /\ repl.workers[w].at = "loop"

\* C35: after a Truncate that removed segments, a successful Append returns
\* an offset that Read reads back with the value appended, and LowestOffset
\* and HighestOffset account for it
C35_AppendAfterTruncate ==
  (~closed /\ truncated /\ res.op = "Append" /\ res.err = Nil) =>
    /\ LogRead(World, res.off).err = Nil
    /\ LogRead(World, res.off).record.Value = res.value
    /\ l.segments # <<>>
    /\ LowestOffset(World) <= res.off
    /\ HighestOffset(World) = res.off

\* the Log holds a record at an offset above off
RecordsAbove(W, off) == \E o \in Offsets : o > off /\ LogRead(W, o).err = Nil

\* C36: a ConsumeStream whose offset is below LowestOffset while the Log
\* holds records at higher offsets eventually sends a record or ends
C36_StreamProgress ==
  (/\ srv.cs.at = "open"
   /\ srv.cs.out = <<>>
   /\ l.segments # <<>>
   /\ srv.cs.offset < LowestOffset(World)
   /\ RecordsAbove(World, srv.cs.offset))
    ~> (srv.cs.out # <<>> \/ srv.cs.at = "done")

\* C37: when the select loop of a worker has returned, the goroutine that
\* receives for it returns as well in the end
C37_ReceiverExits ==
  \A w \in Workers :
    (w <= Len(repl.workers) /\ repl.workers[w].at = "exit"
                           /\ repl.workers[w].recv # "none")
      ~> (w <= Len(repl.workers) /\ repl.workers[w].recv = "exit")

\* C38: with two nodes that replicate from each other no record is copied
\* back: each Log holds at most the records that the clients of the two
\* nodes have produced, so that it stops growing when they stop
C38_Quiesces ==
  /\ Len(peer.log) <= calls
  /\ Len(appended) <= calls

\* C39: at most one worker at a time produces the records of a peer name:
\* once a later worker of the name has produced a record, an earlier one
\* produces no more
C39_OneProducer ==
  \A w1, w2 \in 1..Len(repl.workers) :
    (w1 < w2 /\ repl.workers[w1].name = repl.workers[w2].name) =>
      \A i \in 1..Len(repl.workers[w1].produced) :
        \A j \in 1..Len(repl.workers[w2].produced) :
          repl.workers[w1].produced[i] < repl.workers[w2].produced[j]

\* C40: a segment opened on an index file that no Close has truncated has
\* nextOffset = baseOffset + the number of entries written, the offsets
\* assigned before are readable, and no offset is assigned twice
C40_CrashReopen ==
  opens > 0 =>
    /\ segs[1].nextOffset = segs[1].baseOffset + Len(appended)
    /\ DOMAIN live \subseteq Readable
    /\ \A i, j \in 1..Len(appended) : i < j => appended[i] < appended[j]

====
